---- MODULE Spec2Model ----
(***************************************************************************)
(* RFScopeWaveforms (package rfscopedb): the scan metadata filter          *)
(* (QueryFilter), the SQL join compiler and the row folder of WaveformDB,  *)
(* and the Scan aggregate with its transactional write path.               *)
(*                                                                         *)
(* Conventions.  An Optional[...] argument is a sequence of length <= 1:   *)
(* None is <<>> and a present value x is <<x>>.  A metadata value is a     *)
(* tagged record, Num(n) for a Python number and Str(s) for a Python str.  *)
(* A SQL text is a sequence of clauses; a clause records the fixed         *)
(* template it was formatted from together with every piece of text the    *)
(* f-string splices into it, "%s" being a bound-parameter placeholder.     *)
(***************************************************************************)
EXTENDS Integers, Sequences, FiniteSets, TLC

VARIABLES
    \* ---- QueryFilter construction and clause compilation (db.py)
    pcF,            \* "idle" | "constructed" | "failed" | "compiled"
    filter_params,  \* the constructor's three arguments
    filter_ops,
    filter_values,
    q_filter,       \* None, or the constructed object [params, ops, values]
    raisedF,        \* the error the constructor raised, "none" when it returned
    begin,          \* Optional datetime arguments of get_scan_join_clauses
    end,
    sql,            \* the compiled JOIN/WHERE text
    data,           \* the compiled parameter list
    sent,           \* statements sent to the store by this client
    out,            \* the rows query_scan_rows fetched, in fetch order
    scan_rows,      \* the list query_scan_rows returned
    \* ---- the relational store and the connection to it
    committed,      \* the committed rows of every table
    pending,        \* the rows of the connection's open transaction
    conn,           \* "up" | "lost"
    auto_inc,       \* the store's AUTO_INCREMENT counter of every table
    last_insert_id, \* what SELECT LAST_INSERT_ID() returns on the connection
    \* ---- a Scan object (data_model.py)
    scan,           \* the object's attributes
    raisedS,        \* the error its last add_* call raised, "none" when it returned
    \* ---- one call of Scan.insert_data(conn)
    pcW,            \* the statement the call is at
    cursor,         \* None | "open" | "closed"
    sidW,           \* the local sid
    widW,           \* the local wid of the waveform being written
    todo,           \* the (cavity, signal) pairs the loops have yet to visit
    errW,           \* the exception e the except clause caught, None before
    raisedW,        \* the exception that left insert_data, None when none did
    calls,          \* how many times insert_data has been called
    \* ---- a Query object (data_model.py) and its caller
    query,          \* None, or the object's attributes
    pcQ,            \* the methods the caller has called on it, in order
    raisedQ,        \* the error the last of them raised, "none" when it returned
    \* ---- one call of a stateless operation (a gateway read, delete_scans,
    \*      analyze_signal)
    lastCall,       \* None, or the operation and its arguments as the call left them
    returned,       \* None, or the value the call returned
    raised,         \* the error the call raised, "none" when it returned
    \* ---- the connection of a WaveformDB object (db.py)
    snapshot        \* None, or what the transaction open on the connection reads

varsF == <<pcF, filter_params, filter_ops, filter_values, q_filter, raisedF,
           begin, end, sql, data, sent, out, scan_rows>>

varsStore == <<committed, pending, conn, auto_inc, last_insert_id>>

varsS == <<scan, raisedS>>

varsW == <<pcW, cursor, sidW, widW, todo, errW, raisedW, calls>>

varsQ == <<query, pcQ, raisedQ>>

varsG == <<lastCall, returned, raised, snapshot>>

vars == <<varsF, varsStore, varsS, varsW, varsQ, varsG>>

-----------------------------------------------------------------------------
(* Bounds of the model *)

\* longest list given to the QueryFilter constructor
MaxLen == 2
\* most constraints of a filter run against the store
MaxConstraints == 2
\* most calls of insert_data on one connection
MaxCalls == 2
\* most method calls on one Query object
MaxQueryCalls == 3
\* most calls of delete_scans before the caller queries
MaxDeletes == 2
\* most rows of a fetch given to a fold
MaxFoldRows == 3
\* how many times the reader calls query_scan_rows
MaxReads == 2

-----------------------------------------------------------------------------
(* Values *)

None == <<>>
Some(x) == <<x>>
IsNone(o) == o = <<>>
The(o) == o[1]

Num(n) == [t |-> "num", v |-> n]
Str(s) == [t |-> "str", v |-> s]
\* isinstance(v, str)
IsStr(v) == v.t = "str"

\* a datetime: its wall-clock reading, whether it carries a tzinfo (aware) and,
\* when it does, the UTC offset; the instant it denotes in UTC is wall - offset
DateTime(wall, aware, off) == [wall |-> wall, aware |-> aware, off |-> off]
Naive(wall) == DateTime(wall, FALSE, 0)
Aware(wall, off) == DateTime(wall, TRUE, off)

\* the UTC offset of the system local time zone, which astimezone() applies to
\* a naive datetime
LocalOffset == -1

\* utils.get_datetime_as_utc: a naive datetime is taken as local time and
\* converted; replace(tzinfo=utc) then relabels the datetime, keeping its wall
\* clock, whatever zone it carried
get_datetime_as_utc(dt) ==
    IF ~dt.aware THEN Aware(dt.wall - LocalOffset, 0)
                 ELSE Aware(dt.wall, 0)

\* strftime("%Y-%m-%d %H:%M:%S.%f"): the wall clock, the zone is not printed
strftime(dt) == dt.wall

\* the UTC instant a datetime denotes
Instant(dt) == IF ~dt.aware THEN dt.wall - LocalOffset ELSE dt.wall - dt.off

-----------------------------------------------------------------------------
(* QueryFilter *)

valid_ops == {">", "<", "=", "!=", ">=", "<="}

\* the guard and length test that open QueryFilter.__init__: with any argument
\* present, len(filter_params) != len(filter_values) is evaluated first and
\* len(filter_params) != len(filter_ops) only when that is false; len(None)
\* is a TypeError
LenError(p, o, v) ==
    IF IsNone(p) /\ IsNone(o) /\ IsNone(v) THEN "none"
    ELSE IF IsNone(p) \/ IsNone(v) THEN "TypeError"
    ELSE IF Len(The(p)) # Len(The(v)) THEN "ValueError: same length"
    ELSE IF IsNone(o) THEN "TypeError"
    ELSE IF Len(The(p)) # Len(The(o)) THEN "ValueError: same length"
    ELSE "none"

\* validate_ops looking at the first operator only
validate_ops_first_only(ops) ==
    IF ~IsNone(ops) /\ Len(The(ops)) > 0 /\ The(ops)[1] \notin valid_ops
    THEN "ValueError: Invalid operation"
    ELSE "none"

\* QueryFilter.validate_ops on self.ops
validate_ops(ops) ==
    IF ~IsNone(ops) /\ Len(The(ops)) > 0
       /\ \E i \in 1..Len(The(ops)) : The(ops)[i] \notin valid_ops
    THEN "ValueError: Invalid operation"
    ELSE "none"

\* the error QueryFilter.__init__ raises, "none" when it returns: the length
\* check comes first, validate_ops() last
QueryFilterError(p, o, v) ==
    IF LenError(p, o, v) # "none" THEN LenError(p, o, v) ELSE validate_ops(o)

\* QueryFilter.__len__
FilterLen(qf) == IF IsNone(qf.params) THEN 0 ELSE Len(The(qf.params))

-----------------------------------------------------------------------------
(* WaveformDB: compiling the scan filter *)

\* the text one loop iteration of gen_scan_join_statements appends for item:
\* " JOIN (SELECT {table}.sid FROM {table} WHERE name = %s and value {op} %s)
\*   as s{idx} ON scan.sid = s{idx}.sid"
\* the table chosen by the type of the comparison target
TableOf_always_numeric(value) == "scan_fdata"

TableOf(value) == IF IsStr(value) THEN "scan_sdata" ELSE "scan_fdata"

\* the clause with the metadata name formatted into the text
JoinClause_name_inline(item, idx) ==
    [kind |-> "JOIN", table |-> TableOf(item[3]), name |-> item[1], op |-> item[2],
     value |-> "%s", alias |-> idx]

JoinClause(item, idx) ==
    [kind |-> "JOIN", table |-> TableOf(item[3]), name |-> "%s", op |-> item[2],
     value |-> "%s", alias |-> idx]

\* gen_scan_join_statements(tests): tests is a sequence of <<name, op, value>>
gen_scan_join_statements_reversed(tests) ==
    LET n == Len(tests)
    IN  [sql  |-> [i \in 1..n |-> JoinClause(tests[n + 1 - i], i - 1)],
         data |-> [k \in 1..(2 * n) |->
                      IF k % 2 = 1 THEN Str(tests[n + 1 - ((k + 1) \div 2)][1])
                                   ELSE tests[n + 1 - (k \div 2)][3]]]

gen_scan_join_statements(tests) ==
    [sql  |-> [i \in 1..Len(tests) |-> JoinClause(tests[i], i - 1)],
     data |-> [k \in 1..(2 * Len(tests)) |->
                  IF k % 2 = 1 THEN Str(tests[(k + 1) \div 2][1])
                               ELSE tests[k \div 2][3]]]

\* zip(q_filter.params, q_filter.ops, q_filter.values)
MetaTests(qf) ==
    IF ~IsNone(qf) /\ FilterLen(The(qf)) > 0
    THEN LET f == The(qf)
             n == FilterLen(f)
         IN  [i \in 1..n |-> <<The(f.params)[i], The(f.ops)[i], The(f.values)[i]>>]
    ELSE <<>>

\* " WHERE scan.scan_start_utc >= %s" and " AND scan.scan_start_utc <= %s"
WhereClause(word, column, op) ==
    [kind |-> word, column |-> column, op |-> op, value |-> "%s"]

scan_tests(b, e) ==
    (IF ~IsNone(b)
     THEN << <<"scan.scan_start_utc", ">=", strftime(get_datetime_as_utc(The(b)))>> >>
     ELSE <<>>)
    \o
    (IF ~IsNone(e)
     THEN << <<"scan.scan_start_utc", "<=", strftime(get_datetime_as_utc(The(e)))>> >>
     ELSE <<>>)

\* WaveformDB.get_scan_join_clauses(begin, end, q_filter)
get_scan_join_clauses(b, e, qf) ==
    LET j  == gen_scan_join_statements(MetaTests(qf))
        st == scan_tests(b, e)
    IN  [sql  |-> j.sql \o
                  [i \in 1..Len(st) |->
                      WhereClause(IF i = 1 THEN "WHERE" ELSE "AND", st[i][1], st[i][2])],
         data |-> j.data \o [i \in 1..Len(st) |-> Num(st[i][3])]]

-----------------------------------------------------------------------------
(* The relational store: what a statement of query_scan_rows returns *)

Tables == {"scan", "scan_fdata", "scan_sdata", "waveform", "waveform_adata",
           "waveform_sdata"}

EmptyStore == [t \in Tables |-> {}]

\* the collation order of the textual values the model uses
StrRank(s) == CASE s = "off" -> 1 [] s = "on" -> 2 [] OTHER -> 0

Rank(value) == IF IsStr(value) THEN StrRank(value.v) ELSE value.v

\* column {op} parameter, both of the column's type
Compare(x, op, y) ==
    CASE op = "="  -> x = y
      [] op = "!=" -> x # y
      [] op = "<"  -> Rank(x) < Rank(y)
      [] op = ">"  -> Rank(x) > Rank(y)
      [] op = "<=" -> Rank(x) <= Rank(y)
      [] op = ">=" -> Rank(x) >= Rank(y)
      [] OTHER     -> FALSE

\* the text at a value position: a placeholder takes the next bound parameter
IsPlaceholder(text) == text = "%s"

\* the number of placeholders of a clause, in the order of its text
Placeholders(c) ==
    IF c.kind = "JOIN"
    THEN (IF IsPlaceholder(c.name) THEN 1 ELSE 0) + (IF IsPlaceholder(c.value) THEN 1 ELSE 0)
    ELSE (IF IsPlaceholder(c.value) THEN 1 ELSE 0)

RECURSIVE ParamsBefore(_, _)
ParamsBefore(clauses, i) ==
    IF i <= 1 THEN 0 ELSE ParamsBefore(clauses, i - 1) + Placeholders(clauses[i - 1])

\* the rows of the clause's table that its sub-select keeps for scan sid
JoinMatches(db, clauses, params, i, sid) ==
    LET c  == clauses[i]
        k  == ParamsBefore(clauses, i)
    IN  {r \in db[c.table] :
            /\ r.sid = sid
            /\ Str(r.name) = params[k + 1]
            /\ Compare(r.value, c.op, params[k + 2])}

\* the WHERE/AND condition of clause i on a scan row
WhereHolds(clauses, params, i, srow) ==
    Compare(Num(srow.scan_start_utc), clauses[i].op, params[ParamsBefore(clauses, i) + 1])

RECURSIVE JoinCount(_, _, _, _, _)
\* how many rows the chain of inner joins 1..i yields for one scan row
JoinCount(db, clauses, params, i, srow) ==
    IF i = 0 THEN 1
    ELSE IF clauses[i].kind = "JOIN"
         THEN JoinCount(db, clauses, params, i - 1, srow)
              * Cardinality(JoinMatches(db, clauses, params, i, srow.sid))
         ELSE JoinCount(db, clauses, params, i - 1, srow)
              * (IF WhereHolds(clauses, params, i, srow) THEN 1 ELSE 0)

\* sub_sql, "SELECT scan.* FROM scan {filters}": how often each scan row occurs
SubSelect(db, clauses, params) ==
    [sid \in {s.sid : s \in db["scan"]} |->
        LET srow == CHOOSE s \in db["scan"] : s.sid = sid
        IN  JoinCount(db, clauses, params, Len(clauses), srow)]

\* the scan row of an id, the store's primary key
ScanRow(db, sid) == CHOOSE s \in db["scan"] : s.sid = sid

Repeat(x, n) == [i \in 1..n |-> x]

RECURSIVE SortedBy(_, _)
\* a set of rows as a sequence, by primary key: ascending or descending
SortedBy(rows, order) ==
    IF rows = {} THEN <<>>
    ELSE LET r == CHOOSE x \in rows :
                    \A y \in rows : IF order = "asc" THEN x.id <= y.id ELSE x.id >= y.id
         IN  <<r>> \o SortedBy(rows \ {r}, order)

RECURSIVE JoinRows(_, _, _, _)
\* the metadata rows joined to t1 on sid, each with the columns the statement
\* selects (prefix is "s" for s_sql and "f" for f_sql)
JoinRows(db, t1, meta, prefix) ==
    IF meta = <<>> THEN <<>>
    ELSE LET r == Head(meta)
             n == IF r.sid \in DOMAIN t1 THEN t1[r.sid] ELSE 0
             row == IF prefix = "s"
                    THEN [sid |-> r.sid, scan_start_utc |-> ScanRow(db, r.sid).scan_start_utc,
                          ssid |-> r.id, s_name |-> r.name, s_value |-> r.value]
                    ELSE [sid |-> r.sid, scan_start_utc |-> ScanRow(db, r.sid).scan_start_utc,
                          sfid |-> r.id, f_name |-> r.name, f_value |-> r.value]
         IN  Repeat(row, n) \o JoinRows(db, t1, Tail(meta), prefix)

\* the statement with LEFT JOIN for JOIN: a scan without a metadata row of the
\* table comes back once, the columns of the table NULL
Execute_left_join(db, stmt, params, order) ==
    LET t1 == SubSelect(db, stmt.sub, params)
        child == IF stmt.select = "s_sql" THEN "scan_sdata" ELSE "scan_fdata"
        prefix == IF stmt.select = "s_sql" THEN "s" ELSE "f"
        bare  == {sid \in DOMAIN t1 : t1[sid] > 0 /\ \A r \in db[child] : r.sid # sid}
        ids   == SortedBy({[id |-> sid] : sid \in bare}, order)
        alone == [i \in 1..Len(ids) |-> ids[i].id]
    IN  JoinRows(db, t1, SortedBy(db[child], order), prefix)
        \o [i \in 1..Len(alone) |->
               IF prefix = "s"
               THEN [sid |-> alone[i], scan_start_utc |-> ScanRow(db, alone[i]).scan_start_utc,
                     ssid |-> 0, s_name |-> "NULL", s_value |-> Str("NULL")]
               ELSE [sid |-> alone[i], scan_start_utc |-> ScanRow(db, alone[i]).scan_start_utc,
                     sfid |-> 0, f_name |-> "NULL", f_value |-> Str("NULL")]]

\* cursor.execute(s_sql | f_sql, data) followed by reading every row
Execute(db, stmt, params, order) ==
    LET t1 == SubSelect(db, stmt.sub, params)
    IN  IF stmt.select = "s_sql"
        THEN JoinRows(db, t1, SortedBy(db["scan_sdata"], order), "s")
        ELSE JoinRows(db, t1, SortedBy(db["scan_fdata"], order), "f")

-----------------------------------------------------------------------------
(* WaveformDB.query_scan_rows *)

EmptyRecord == [k \in {} |-> Num(0)]
\* d[k] = v, and an assignment that keeps the value a key already has
Put_keep_first(f, k, v) == [x \in DOMAIN f \cup {k} |-> IF x \in DOMAIN f THEN f[x] ELSE v]

Put(f, k, v) == [x \in DOMAIN f \cup {k} |-> IF x = k THEN v ELSE f[x]]

\* the keys under which the two kinds of metadata row are stored
SKey_no_prefix(name) == name

SKey(name) == "s_" \o name
FKey(name) == "f_" \o name

\* the loop body without the "if sid not in scan_meta" test: a new record for
\* every row
FoldRow_record_per_row(scan_meta, row) ==
    Append(scan_meta,
           [sid |-> row.sid,
            rec |-> Put(Put(Put(EmptyRecord, "sid", Num(row.sid)),
                            "scan_start_utc", Num(row.scan_start_utc)),
                        IF "s_name" \in DOMAIN row THEN SKey(row.s_name) ELSE FKey(row.f_name),
                        IF "s_name" \in DOMAIN row THEN row.s_value ELSE row.f_value)])

\* one iteration of the loop over out: scan_meta is an insertion-ordered dict,
\* here a sequence of [sid, rec]
FoldRow(scan_meta, row) ==
    LET seen == {i \in 1..Len(scan_meta) : scan_meta[i].sid = row.sid}
        m1   == IF seen = {} THEN Append(scan_meta, [sid |-> row.sid, rec |-> EmptyRecord])
                             ELSE scan_meta
        p    == IF seen = {} THEN Len(m1) ELSE CHOOSE i \in seen : TRUE
        r1   == Put(Put(m1[p].rec, "sid", Num(row.sid)),
                    "scan_start_utc", Num(row.scan_start_utc))
        r2   == IF "s_name" \in DOMAIN row THEN Put(r1, SKey(row.s_name), row.s_value)
                ELSE IF "f_name" \in DOMAIN row THEN Put(r1, FKey(row.f_name), row.f_value)
                ELSE r1
    IN  [m1 EXCEPT ![p].rec = r2]

RECURSIVE FoldFrom(_, _)
FoldFrom(scan_meta, rows) ==
    IF rows = <<>> THEN scan_meta ELSE FoldFrom(FoldRow(scan_meta, Head(rows)), Tail(rows))

\* list(scan_meta.values())
FoldScanRows(rows) ==
    LET m == FoldFrom(<<>>, rows) IN [i \in 1..Len(m) |-> m[i].rec]

\* the two statements query_scan_rows builds around sub_sql
ScanStatement(select, filters) == [select |-> select, sub |-> filters]

\* the rows a statement on the connection of the WaveformDB object reads. The
\* connection is opened with autocommit=False, so its first statement opens a
\* transaction that no read ends; under the engine's default isolation every
\* later read of that transaction sees the rows the first one saw
Visible == IF IsNone(snapshot) THEN committed ELSE The(snapshot)

\* query_scan_rows(b, e, q_filter): compile, execute s_sql then f_sql with the
\* same parameter list, fold; order is the order the engine returns rows in,
\* which no statement fixes. The cursor is closed, the transaction is not
query_scan_rows(b, e, order) ==
    LET c     == get_scan_join_clauses(b, e, q_filter)
        s_sql == ScanStatement("s_sql", c.sql)
        f_sql == ScanStatement("f_sql", c.sql)
        rows  == Execute(Visible, s_sql, c.data, order)
                 \o Execute(Visible, f_sql, c.data, order)
    IN  /\ snapshot' = Some(Visible)
        /\ begin' = b /\ end' = e
        /\ sql' = Some(c.sql) /\ data' = Some(c.data)
        /\ sent' = sent \o <<s_sql, f_sql>>
        /\ out' = rows
        /\ scan_rows' = Some(FoldScanRows(rows))

-----------------------------------------------------------------------------
(* Scan: the in-memory aggregate *)

\* a dict whose order of keys matters is a sequence of [key, value] entries;
\* scan_data_float and scan_data_str are functions from names to values
EmptyDict == [k \in {} |-> Num(0)]

\* dict.update
Update(d, e) == [k \in DOMAIN d \cup DOMAIN e |-> IF k \in DOMAIN e THEN e[k] ELSE d[k]]

\* Scan.__init__(dt): waveform_data is a sequence of [cav, signals], the
\* signals of a cavity in the order of the caller's dict, with the cavity's
\* sampling rate and the samples of each signal; the analysis of a
\* (cavity, signal) pair is the set of names it holds
NewScan(dt) ==
    [id |-> None, dt |-> dt,
     waveform_data |-> <<>>,
     analysis_scalar |-> {}, analysis_array |-> {},
     scan_data_float |-> EmptyDict, scan_data_str |-> EmptyDict]

\* the test add_scan_data makes before updating: a key of float_data that is
\* also a key of str_data
OverlapInCall(float_data, str_data) == DOMAIN float_data \cap DOMAIN str_data # {}

\* Scan.add_scan_data(float_data, str_data)
add_scan_data(float_data, str_data) ==
    IF OverlapInCall(float_data, str_data)
    THEN /\ raisedS' = "ValueError"
         /\ UNCHANGED scan
    ELSE /\ raisedS' = "none"
         /\ scan' = [scan EXCEPT !.scan_data_float = Update(@, float_data),
                                 !.scan_data_str = Update(@, str_data)]

\* the names analyze_signal returns
ScalarNames == {"minimum", "maximum", "peak_to_peak", "mean", "median",
                "standard_deviation", "rms", "25th_quartile", "75th_quartile",
                "dominant_frequency"}
ArrayNames == {"power_spectrum", "frequencies"}

-----------------------------------------------------------------------------
(* Sample arrays and their JSON text *)

\* an ndarray of len samples: head holds its first samples, the others are 0.0
Array(len, head) == [len |-> len, head |-> head]

\* the sample values the model draws from, and repr() of each as json.dumps
\* writes it
SampleValues == {0, 1, 2}
FloatRepr(x) == CASE x = 0 -> "0.0" [] x = 1 -> "1.0" [] x = 2 -> "2.0"
ParseFloat(t) == CHOOSE x \in SampleValues : FloatRepr(x) = t

\* json.dumps(array.tolist()): the text of a JSON list, number by number
json_dumps(array) ==
    [len |-> array.len, text |-> [i \in 1..Len(array.head) |-> FloatRepr(array.head[i])]]

\* np.array(json.loads(text))
json_loads(doc) ==
    Array(doc.len, [i \in 1..Len(doc.text) |-> ParseFloat(doc.text[i])])

\* the arrays analyze_signal derives with periodogram(arr, sampling_rate):
\* 4097 values each, here a fixed function of the samples
periodogram(array, name) ==
    IF name = "frequencies" THEN Array(4097, <<0, 1>>)
    ELSE Array(4097, [i \in 1..Len(array.head) |-> (array.head[i] * array.head[i]) % 3])

-----------------------------------------------------------------------------
(* Scan.insert_data(conn): one statement per step *)

\* self.waveform_data[cav][signal_name]
Samples(cav, signal_name) ==
    LET i == CHOOSE j \in 1..Len(scan.waveform_data) : scan.waveform_data[j].cav = cav
    IN  scan.waveform_data[i].data[signal_name]

\* the array _insert_waveform_adata serialises under a process name
ArrayOf(cav, signal_name, process) ==
    IF process = "raw" THEN Samples(cav, signal_name)
    ELSE periodogram(Samples(cav, signal_name), process)

\* the pairs of a loop that lacks the test for the Time signal
PairsOf_with_time(cav, signals) == [i \in 1..Len(signals) |-> <<cav, signals[i]>>]

RECURSIVE PairsOf(_, _)
\* the (cavity, signal) pairs of one cavity the inner loop does not skip
PairsOf(cav, signals) ==
    IF signals = <<>> THEN <<>>
    ELSE (IF Head(signals) = "Time" THEN <<>> ELSE << <<cav, Head(signals)>> >>)
         \o PairsOf(cav, Tail(signals))

RECURSIVE WaveformPairs(_)
\* the pairs the two loops over waveform_data visit, in order
WaveformPairs(waveform_data) ==
    IF waveform_data = <<>> THEN <<>>
    ELSE PairsOf(Head(waveform_data).cav, Head(waveform_data).signals)
         \o WaveformPairs(Tail(waveform_data))

\* self.sampling_rate[cav]
sampling_rate(cav) ==
    LET i == CHOOSE j \in 1..Len(scan.waveform_data) : scan.waveform_data[j].cav = cav
    IN  scan.waveform_data[i].sampling_rate

RECURSIVE SetToSeq(_)
\* the keys of a dict in the order its items() yields them
SetToSeq(S) == IF S = {} THEN <<>>
               ELSE LET x == CHOOSE y \in S : TRUE IN <<x>> \o SetToSeq(S \ {x})

\* the rows of an executemany: the tuples with consecutive primary keys
Batch(tuples, first) ==
    {[tuples[i] EXCEPT !.id = first + i - 1] : i \in 1..Len(tuples)}

Merge(db, tx) == [t \in Tables |-> db[t] \cup tx[t]]

\* what the except clause leaves of the store when conn.rollback() returns
RolledBack_committing(db, tx) == [committed |-> Merge(db, tx), pending |-> EmptyStore]

RolledBack(db, tx) == [committed |-> db, pending |-> EmptyStore]

\* the statement raises: mysql.connector.Error e is caught by the except clause
Caught(at, kind) ==
    /\ errW' = Some([at |-> at, kind |-> kind])
    /\ pcW' = "rollback"

\* a statement sent on the connection fails: the server refuses it and the
\* transaction stays open, or the connection is lost (it may be lost already)
\* and the server discards the open transaction
StoreFailure(at) ==
    /\ \/ /\ conn = "up"
          /\ Caught(at, "Error")
          /\ UNCHANGED <<conn, pending>>
       \/ /\ Caught(at, "OperationalError")
          /\ conn' = "lost"
          /\ pending' = EmptyStore
    /\ UNCHANGED <<committed, auto_inc, last_insert_id, cursor, sidW, widW, todo,
                   raisedW, calls>>

\* INSERT INTO table: the row joins the open transaction under the next key
InsertOne_staleId(table, row) ==
    /\ pending' = [pending EXCEPT ![table] = @ \cup {row}]
    /\ auto_inc' = [auto_inc EXCEPT ![table] = @ + 1]
    /\ UNCHANGED last_insert_id

InsertOne(table, row) ==
    /\ pending' = [pending EXCEPT ![table] = @ \cup {row}]
    /\ auto_inc' = [auto_inc EXCEPT ![table] = @ + 1]
    /\ last_insert_id' = auto_inc[table]

InsertMany(table, tuples) ==
    /\ pending' = [pending EXCEPT ![table] = @ \cup Batch(tuples, auto_inc[table])]
    /\ auto_inc' = [auto_inc EXCEPT ![table] = @ + Len(tuples)]
    /\ last_insert_id' = IF tuples = <<>> THEN last_insert_id ELSE auto_inc[table]

\* scan.insert_data(conn) is called
CallInsertData ==
    /\ pcW \in {"idle", "returned", "raised"}
    /\ calls < MaxCalls
    /\ calls' = calls + 1
    /\ pcW' = "cursor"
    /\ cursor' = "None" /\ sidW' = None /\ widW' = None /\ todo' = <<>>
    /\ errW' = None /\ raisedW' = None
    /\ UNCHANGED <<varsStore>>

\* cursor = conn.cursor()
OpenCursor ==
    /\ pcW = "cursor"
    /\ \/ /\ conn = "up"
          /\ cursor' = "open"
          /\ pcW' = "insert_scan"
          /\ UNCHANGED <<errW, varsStore>>
       \/ /\ conn = "lost"
          /\ Caught("cursor", "OperationalError")
          /\ UNCHANGED <<cursor, varsStore>>
    /\ UNCHANGED <<sidW, widW, todo, raisedW, calls>>

\* cursor.execute("INSERT INTO scan (scan_start_utc) VALUES (%s)", ...)
InsertScan ==
    /\ pcW = "insert_scan"
    /\ \/ /\ conn = "up"
          /\ InsertOne("scan", [sid |-> auto_inc["scan"],
                                scan_start_utc |-> strftime(get_datetime_as_utc(scan.dt))])
          /\ pcW' = "scan_id"
          /\ UNCHANGED <<committed, conn, cursor, sidW, widW, todo, errW, raisedW, calls>>
       \/ StoreFailure("insert_scan")

\* cursor.execute("SELECT LAST_INSERT_ID()"); sid = cursor.fetchone()[0]
ReadScanId ==
    /\ pcW = "scan_id"
    /\ \/ /\ conn = "up"
          /\ sidW' = Some(last_insert_id)
          /\ todo' = WaveformPairs(scan.waveform_data)
          /\ pcW' = IF WaveformPairs(scan.waveform_data) = <<>> THEN "scan_fdata"
                                                                ELSE "waveform"
          /\ UNCHANGED <<varsStore, cursor, widW, errW, raisedW, calls>>
       \/ StoreFailure("scan_id")

\* _insert_waveform: cursor.execute("INSERT INTO waveform(...) VALUES (...)")
InsertWaveform ==
    /\ pcW = "waveform"
    /\ \/ /\ conn = "up"
          /\ InsertOne("waveform",
                       [wid |-> auto_inc["waveform"], sid |-> The(sidW),
                        cavity |-> Head(todo)[1], signal_name |-> Head(todo)[2],
                        sample_rate_hz |-> sampling_rate(Head(todo)[1]), comment |-> "NULL"])
          /\ pcW' = "waveform_id"
          /\ UNCHANGED <<committed, conn, cursor, sidW, widW, todo, errW, raisedW, calls>>
       \/ StoreFailure("waveform")

\* _insert_waveform: cursor.execute("SELECT LAST_INSERT_ID()"); fetchone()[0]
ReadWaveformId ==
    /\ pcW = "waveform_id"
    /\ \/ /\ conn = "up"
          /\ widW' = Some(last_insert_id)
          /\ pcW' = "adata"
          /\ UNCHANGED <<varsStore, cursor, sidW, todo, errW, raisedW, calls>>
       \/ StoreFailure("waveform_id")

\* _insert_waveform_adata: the raw row first, then one row per analysis array
InsertArrayData ==
    /\ pcW = "adata"
    /\ Head(todo) \in scan.analysis_array
    /\ \/ /\ conn = "up"
          /\ LET names == <<"raw">> \o SetToSeq(ArrayNames)
             IN  InsertMany("waveform_adata",
                            [i \in 1..Len(names) |->
                                [id |-> 0, wid |-> The(widW), process |-> names[i],
                                 data |-> json_dumps(ArrayOf(Head(todo)[1], Head(todo)[2],
                                                             names[i]))]])
          /\ pcW' = "sdata"
          /\ UNCHANGED <<committed, conn, cursor, sidW, widW, todo, errW, raisedW, calls>>
       \/ StoreFailure("adata")

\* _insert_waveform_adata for a pair add_cavity_data left without analysis:
\* self.analysis_array[cav][signal_name] raises KeyError before any statement
\* is sent, and the except clause catches it
MissingAnalysis ==
    /\ pcW = "adata"
    /\ Head(todo) \notin scan.analysis_array
    /\ Caught("adata", "KeyError")
    /\ UNCHANGED <<varsStore, cursor, sidW, widW, todo, raisedW, calls>>

\* _insert_waveform_sdata: one row per scalar metric; then the next pair
InsertScalarData ==
    /\ pcW = "sdata"
    /\ \/ /\ conn = "up"
          /\ LET names == SetToSeq(ScalarNames)
             IN  InsertMany("waveform_sdata",
                            [i \in 1..Len(names) |->
                                [id |-> 0, wid |-> The(widW), name |-> names[i],
                                 value |-> Num(0)]])
          /\ todo' = Tail(todo)
          /\ pcW' = IF Tail(todo) = <<>> THEN "scan_fdata" ELSE "waveform"
          /\ UNCHANGED <<committed, conn, cursor, sidW, widW, errW, raisedW, calls>>
       \/ StoreFailure("sdata")

\* the tuples (sid, key, value) of a metadata dict
MetaTuples(d, sid) ==
    LET names == SetToSeq(DOMAIN d)
    IN  [i \in 1..Len(names) |->
            [id |-> 0, sid |-> sid, name |-> names[i], value |-> d[names[i]]]]

\* _insert_scan_fdata: executemany, skipped when there is no numeric metadata
InsertScanFdata ==
    /\ pcW = "scan_fdata"
    /\ \/ /\ DOMAIN scan.scan_data_float = {}
          /\ pcW' = "scan_sdata"
          /\ UNCHANGED <<varsStore, cursor, sidW, widW, todo, errW, raisedW, calls>>
       \/ /\ DOMAIN scan.scan_data_float # {}
          /\ \/ /\ conn = "up"
                /\ InsertMany("scan_fdata", MetaTuples(scan.scan_data_float, The(sidW)))
                /\ pcW' = "scan_sdata"
                /\ UNCHANGED <<committed, conn, cursor, sidW, widW, todo, errW, raisedW,
                               calls>>
             \/ StoreFailure("scan_fdata")

\* _insert_scan_sdata: executemany, skipped when there is no textual metadata
InsertScanSdata ==
    /\ pcW = "scan_sdata"
    /\ \/ /\ DOMAIN scan.scan_data_str = {}
          /\ pcW' = "commit"
          /\ UNCHANGED <<varsStore, cursor, sidW, widW, todo, errW, raisedW, calls>>
       \/ /\ DOMAIN scan.scan_data_str # {}
          /\ \/ /\ conn = "up"
                /\ InsertMany("scan_sdata", MetaTuples(scan.scan_data_str, The(sidW)))
                /\ pcW' = "commit"
                /\ UNCHANGED <<committed, conn, cursor, sidW, widW, todo, errW, raisedW,
                               calls>>
             \/ StoreFailure("scan_sdata")

\* conn.commit(): the engine makes the whole transaction durable or none of
\* it; the connection may be lost after the server committed, before the
\* client hears of it
Commit ==
    /\ pcW = "commit"
    /\ \/ /\ conn = "up"
          /\ committed' = Merge(committed, pending)
          /\ pending' = EmptyStore
          /\ pcW' = "returned"
          /\ UNCHANGED <<conn, auto_inc, last_insert_id, cursor, sidW, widW, todo, errW,
                         raisedW, calls>>
       \/ StoreFailure("commit")
       \/ /\ conn = "up"
          /\ committed' = Merge(committed, pending)
          /\ pending' = EmptyStore
          /\ conn' = "lost"
          /\ Caught("commit", "OperationalError")
          /\ UNCHANGED <<auto_inc, last_insert_id, cursor, sidW, widW, todo, raisedW, calls>>

\* except clause: conn.rollback(), which raises on a connection that is lost
\* or drops; its exception leaves insert_data in place of e
Rollback ==
    /\ pcW = "rollback"
    /\ \/ /\ conn = "up"
          /\ committed' = RolledBack(committed, pending).committed
          /\ pending' = RolledBack(committed, pending).pending
          /\ pcW' = "close"
          /\ UNCHANGED <<conn, raisedW>>
       \/ /\ conn' = "lost"
          /\ pending' = EmptyStore
          /\ raisedW' = Some([at |-> "rollback", kind |-> "OperationalError"])
          /\ pcW' = "raised"
          /\ UNCHANGED committed
    /\ UNCHANGED <<auto_inc, last_insert_id, cursor, sidW, widW, todo, errW, calls>>

\* except clause: cursor.close() when there is a cursor, then raise e
CloseAndRaise ==
    /\ pcW = "close"
    /\ cursor' = IF cursor = "None" THEN cursor ELSE "closed"
    /\ raisedW' = errW
    /\ pcW' = "raised"
    /\ UNCHANGED <<varsStore, sidW, widW, todo, errW, calls>>

InsertDataStep ==
    \/ CallInsertData \/ OpenCursor \/ InsertScan \/ ReadScanId \/ InsertWaveform
    \/ ReadWaveformId \/ InsertArrayData \/ InsertScalarData \/ InsertScanFdata
    \/ InsertScanSdata \/ Commit \/ Rollback \/ CloseAndRaise

-----------------------------------------------------------------------------
(* States in which a part of the program is at rest *)

InitStoreVars ==
    /\ pending = EmptyStore
    /\ conn = "up"
    /\ auto_inc = [t \in Tables |-> 1]
    /\ last_insert_id = 0

InitScanVars ==
    /\ scan = NewScan(Naive(1))
    /\ raisedS = "none"

InitWriteVars ==
    /\ pcW = "idle"
    /\ cursor = "None" /\ sidW = None /\ widW = None /\ todo = <<>>
    /\ errW = None /\ raisedW = None
    /\ calls = 0

InitQueryVars ==
    /\ query = None
    /\ pcQ = <<>>
    /\ raisedQ = "none"

InitCallVars ==
    /\ lastCall = None
    /\ returned = None
    /\ raised = "none"
    /\ snapshot = None

-----------------------------------------------------------------------------
(* Inputs of the filter specification *)

FilterNames == {"a", "c"}
FilterOps == {">", "=", "<=", "LIKE"}
FilterValues == {Num(1), Num(2), Str("on")}
BeginTimes == {Naive(1), Aware(3, 1)}
EndTimes == {Aware(2, 0)}
Orders == {"asc", "desc"}

SeqsUpTo(S, n) == UNION {[1..k -> S] : k \in 0..n}
OptSeqs(S, n) == {None} \cup {Some(s) : s \in SeqsUpTo(S, n)}
OptBegin == {None} \cup {Some(t) : t \in BeginTimes}
OptEnd == {None} \cup {Some(t) : t \in EndTimes}

\* the store of the filter specification: one scan with one row in each
\* metadata table
FilterStore ==
    [EmptyStore EXCEPT
        !["scan"] = {[sid |-> 1, scan_start_utc |-> 2]},
        !["scan_fdata"] = {[id |-> 1, sid |-> 1, name |-> "a", value |-> Num(1)]},
        !["scan_sdata"] = {[id |-> 1, sid |-> 1, name |-> "c", value |-> Str("on")]}]

InitFilterVars ==
    /\ pcF = "idle"
    /\ filter_params = None /\ filter_ops = None /\ filter_values = None
    /\ q_filter = None
    /\ raisedF = "none"
    /\ begin = None /\ end = None
    /\ sql = None /\ data = None
    /\ sent = <<>>
    /\ out = <<>>
    /\ scan_rows = None

InitF ==
    /\ InitFilterVars /\ InitStoreVars /\ InitScanVars /\ InitWriteVars
    /\ InitQueryVars /\ InitCallVars
    /\ committed = FilterStore

\* q_filter = QueryFilter(p, o, v)
QueryFilterInit(p, o, v) ==
    /\ filter_params' = p /\ filter_ops' = o /\ filter_values' = v
    /\ raisedF' = QueryFilterError(p, o, v)
    /\ IF QueryFilterError(p, o, v) = "none"
       THEN /\ q_filter' = Some([params |-> p, ops |-> o, values |-> v])
            /\ pcF' = "constructed"
       ELSE /\ q_filter' = None
            /\ pcF' = "failed"
    /\ UNCHANGED <<begin, end, sql, data, sent, out, scan_rows>>
    /\ UNCHANGED <<varsStore, varsS, varsW, varsQ, varsG>>

\* the caller builds a filter from any three optional lists
NewQueryFilter ==
    /\ pcF = "idle"
    /\ \E p \in OptSeqs(FilterNames, MaxLen), o \in OptSeqs(FilterOps, MaxLen),
          v \in OptSeqs(FilterValues, MaxLen) : QueryFilterInit(p, o, v)

\* db.query_scan_rows(b, e, q_filter), with the filter just constructed or with
\* no filter at all; a caller whose QueryFilter(...) raised never gets here
QueryScanRows ==
    /\ pcF \in {"idle", "constructed"}
    /\ \E b \in OptBegin, e \in OptEnd, order \in Orders :
          query_scan_rows(b, e, order)
    /\ pcF' = "returned"
    /\ UNCHANGED <<filter_params, filter_ops, filter_values, q_filter, raisedF>>
    /\ UNCHANGED <<varsStore, varsS, varsW, varsQ, lastCall, returned, raised>>

NextF == NewQueryFilter \/ QueryScanRows

SpecFilter == InitF /\ [][NextF]_vars

-----------------------------------------------------------------------------
(* Properties of the filter specification *)

HasInvalidOp(o) == ~IsNone(o) /\ \E i \in 1..Len(The(o)) : The(o)[i] \notin valid_ops

\* the three lists are present and of one length: a list of constraints
IsConstraintList(p, o, v) ==
    /\ ~IsNone(p) /\ ~IsNone(o) /\ ~IsNone(v)
    /\ Len(The(p)) = Len(The(o)) /\ Len(The(p)) = Len(The(v))

\* the three lists are not all of one length, an absent list having none
ShapeMismatch(p, o, v) ==
    ~(IsNone(p) /\ IsNone(o) /\ IsNone(v)) /\ ~IsConstraintList(p, o, v)

\* C3: whenever one of the operators given is outside the whitelist, the
\* constructor raises, no SQL is built and no statement reaches the store; and
\* when the three lists form a constraint list the error is the
\* invalid-operator error.
C3_InvalidOperatorRejected ==
    (pcF # "idle" /\ HasInvalidOp(filter_ops)) =>
        /\ pcF = "failed" /\ raisedF # "none" /\ IsNone(q_filter)
        /\ IsNone(sql) /\ IsNone(data) /\ sent = <<>>
        /\ IsConstraintList(filter_params, filter_ops, filter_values)
              => raisedF = "ValueError: Invalid operation"

\* C3 witness: a two-constraint list whose second operator alone is invalid
\* was rejected with the invalid-operator error
C3_Witness ==
    /\ pcF = "failed" /\ raisedF = "ValueError: Invalid operation"
    /\ IsConstraintList(filter_params, filter_ops, filter_values)
    /\ Len(The(filter_ops)) = 2
    /\ The(filter_ops)[1] \in valid_ops /\ The(filter_ops)[2] \notin valid_ops

\* C4: lists that disagree in length, an absent list among present ones
\* included, are rejected with the shape-mismatch ValueError, and lists that
\* agree (or are all absent) raise no shape error and, with whitelisted
\* operators, construct the filter.
C4_ShapeMismatchIsValueError ==
    pcF \in {"constructed", "failed"} =>
        IF ShapeMismatch(filter_params, filter_ops, filter_values)
        THEN raisedF = "ValueError: same length"
        ELSE /\ raisedF \notin {"ValueError: same length", "TypeError"}
             /\ ~HasInvalidOp(filter_ops) => pcF = "constructed"

\* the JOIN clauses of a SQL text, in order
Joins(text) == SelectSeq(text, LAMBDA c : c.kind = "JOIN")

\* the number of constraints of the filter the caller passed
NumConstraints == IF IsNone(filter_params) THEN 0 ELSE Len(The(filter_params))

\* C5: the compiled text holds exactly one JOIN per constraint (none without a
\* filter), the i-th on scan_fdata when the i-th value is a number and on
\* scan_sdata when it is a string.
C5_OneJoinPerConstraint ==
    pcF = "returned" =>
        /\ Len(Joins(The(sql))) = NumConstraints
        /\ \A i \in 1..NumConstraints :
              Joins(The(sql))[i].table =
                  (IF The(filter_values)[i].t = "num" THEN "scan_fdata" ELSE "scan_sdata")

\* C5 witness: a compiled filter of two constraints, one numeric and one textual
C5_Witness ==
    /\ pcF = "returned" /\ NumConstraints = 2
    /\ The(filter_values)[1].t = "num" /\ The(filter_values)[2].t = "str"
    /\ Joins(The(sql))[1].table = "scan_fdata" /\ Joins(The(sql))[2].table = "scan_sdata"

\* a filter and time bounds with every name, value and timestamp replaced by a
\* fixed one of the same type: what is left is the operator list, the type of
\* each value and the presence of each bound
ErasedValue(v) == IF IsStr(v) THEN Str("x") ELSE Num(0)
ErasedFilter(qf) ==
    IF IsNone(qf) \/ IsNone(The(qf).params) THEN qf
    ELSE Some([params |-> Some([i \in 1..Len(The(The(qf).params)) |-> "n"]),
               ops    |-> The(qf).ops,
               values |-> Some([i \in 1..Len(The(The(qf).values)) |->
                                   ErasedValue(The(The(qf).values)[i])])])
ErasedTime(t) == IF IsNone(t) THEN t ELSE Some(Aware(0, 0))

\* C6: the SQL text is the text compiled from the erased call, so it depends on
\* nothing but the operators, the value types and which bounds are present;
\* every name and value position of the text is a placeholder, with the name
\* and value in the parameter list; every operator in the text is whitelisted.
C6_TextIndependentOfValues ==
    pcF = "returned" =>
        /\ The(sql) = get_scan_join_clauses(ErasedTime(begin), ErasedTime(end),
                                            ErasedFilter(q_filter)).sql
        /\ \A i \in 1..Len(The(sql)) :
              /\ The(sql)[i].value = "%s"
              /\ The(sql)[i].op \in valid_ops
              /\ The(sql)[i].kind = "JOIN" => The(sql)[i].name = "%s"
        /\ \A i \in 1..NumConstraints :
              /\ The(data)[2 * i - 1] = Str(The(filter_params)[i])
              /\ The(data)[2 * i] = The(filter_values)[i]
        /\ Len(The(data)) = 2 * NumConstraints + Len(begin) + Len(end)

\* C6 witness: a compiled call with two constraints of different names and
\* values and a time bound
C6_Witness ==
    /\ pcF = "returned" /\ NumConstraints = 2 /\ ~IsNone(begin)
    /\ The(filter_params)[1] # The(filter_params)[2]
    /\ The(filter_values)[1] = Num(2) /\ The(filter_values)[2] = Str("on")
    /\ Len(The(sql)) = 3

-----------------------------------------------------------------------------
(* Inputs of the read specification: valid filters run against stores *)

\* a store as the integration tests load it: three scans, the first with the
\* name c in both metadata tables
TestStore ==
    [EmptyStore EXCEPT
        !["scan"] = {[sid |-> 1, scan_start_utc |-> 1], [sid |-> 2, scan_start_utc |-> 2],
                     [sid |-> 3, scan_start_utc |-> 3]},
        !["scan_fdata"] = {[id |-> 1, sid |-> 1, name |-> "a", value |-> Num(1)],
                           [id |-> 2, sid |-> 1, name |-> "c", value |-> Num(2)],
                           [id |-> 3, sid |-> 2, name |-> "a", value |-> Num(2)],
                           [id |-> 4, sid |-> 3, name |-> "a", value |-> Num(1)]},
        !["scan_sdata"] = {[id |-> 1, sid |-> 1, name |-> "c", value |-> Str("on")],
                           [id |-> 2, sid |-> 2, name |-> "c", value |-> Str("off")],
                           [id |-> 3, sid |-> 3, name |-> "c", value |-> Str("on")]}]

\* a store other writers have appended to: a name repeated for one scan, and
\* names that spell the fixed fields of a record
AppendedStore ==
    [EmptyStore EXCEPT
        !["scan"] = {[sid |-> 1, scan_start_utc |-> 2], [sid |-> 2, scan_start_utc |-> 2]},
        !["scan_fdata"] = {[id |-> 1, sid |-> 2, name |-> "a", value |-> Num(1)],
                           [id |-> 2, sid |-> 1, name |-> "a", value |-> Num(2)],
                           [id |-> 3, sid |-> 2, name |-> "a", value |-> Num(2)],
                           [id |-> 4, sid |-> 1, name |-> "sid", value |-> Num(2)]},
        !["scan_sdata"] = {[id |-> 1, sid |-> 2, name |-> "c", value |-> Str("on")],
                           [id |-> 2, sid |-> 1, name |-> "scan_start_utc", value |-> Str("off")],
                           [id |-> 3, sid |-> 1, name |-> "a", value |-> Str("on")]}]

\* a store holding a scan written with no scan metadata at all
BareStore ==
    [EmptyStore EXCEPT
        !["scan"] = {[sid |-> 1, scan_start_utc |-> 3], [sid |-> 2, scan_start_utc |-> 2]},
        !["waveform"] = {[wid |-> 1, sid |-> 2, cavity |-> "R123", signal_name |-> "GMES",
                          sample_rate_hz |-> 5000, comment |-> "NULL"]},
        !["scan_fdata"] = {[id |-> 1, sid |-> 1, name |-> "a", value |-> Num(2)]},
        !["scan_sdata"] = {[id |-> 1, sid |-> 1, name |-> "a", value |-> Str("off")]}]

ReadStores == {TestStore, AppendedStore, BareStore}

\* the constraints of the read specification: every whitelisted operator, and
\* the names a and c each with a numeric and with a textual target
ReadConstraints ==
    { <<"a", "<", Num(2)>>, <<"a", "=", Num(1)>>, <<"a", ">=", Num(2)>>,
      <<"c", "=", Num(2)>>, <<"c", "=", Str("on")>>, <<"c", "!=", Str("on")>>,
      <<"a", "<=", Str("on")>>, <<"a", ">", Num(0)>> }

InitR ==
    /\ InitFilterVars /\ InitStoreVars /\ InitScanVars /\ InitWriteVars
    /\ InitQueryVars /\ InitCallVars
    /\ committed \in ReadStores

\* the caller builds a filter from a list of constraints
NewReadFilter ==
    /\ pcF = "idle"
    /\ \E cs \in SeqsUpTo(ReadConstraints, MaxConstraints) :
          QueryFilterInit(Some([i \in 1..Len(cs) |-> cs[i][1]]),
                          Some([i \in 1..Len(cs) |-> cs[i][2]]),
                          Some([i \in 1..Len(cs) |-> cs[i][3]]))

NextR == NewReadFilter \/ QueryScanRows

SpecRead == InitR /\ [][NextR]_vars

-----------------------------------------------------------------------------
(* Properties of the read specification *)

\* the scan ids of the returned records, in order
ReturnedSids == [i \in 1..Len(The(scan_rows)) |-> The(scan_rows)[i]["sid"].v]
Range(f) == {f[i] : i \in DOMAIN f}

\* the scan has a row, in the table of the target's type, with the
\* constraint's name and a value that satisfies the operator
ConstraintHolds(db, sid, name, op, value) ==
    \E r \in db[IF value.t = "str" THEN "scan_sdata" ELSE "scan_fdata"] :
        r.sid = sid /\ r.name = name /\ Compare(r.value, op, value)

AllConstraintsHold(db, sid) ==
    \A i \in 1..NumConstraints :
        ConstraintHolds(db, sid, The(filter_params)[i], The(filter_ops)[i],
                        The(filter_values)[i])

\* the stored UTC start time lies between the instants begin and end denote
WithinBounds(srow) ==
    /\ IsNone(begin) \/ srow.scan_start_utc >= Instant(The(begin))
    /\ IsNone(end) \/ srow.scan_start_utc <= Instant(The(end))

\* a bound whose instant get_datetime_as_utc keeps: naive, or aware in UTC
KeepsInstant(t) == IsNone(t) \/ ~The(t).aware \/ The(t).off = 0

\* C7: with at least one constraint, a scan is returned exactly when its start
\* time lies within the time bounds and every constraint holds of it.
C7_ReturnedIffAllConstraintsHold ==
    (pcF = "returned" /\ NumConstraints >= 1) =>
        \A s \in committed["scan"] :
            s.sid \in Range(ReturnedSids)
                <=> (WithinBounds(s) /\ AllConstraintsHold(committed, s.sid))

\* the same statement for calls whose bounds are naive or aware in UTC, the
\* datetimes whose instant the conversion of the bounds keeps
ReturnedIffAllConstraintsHold_UtcBounds ==
    (pcF = "returned" /\ NumConstraints >= 1 /\ KeepsInstant(begin) /\ KeepsInstant(end)) =>
        \A s \in committed["scan"] :
            s.sid \in Range(ReturnedSids)
                <=> (WithinBounds(s) /\ AllConstraintsHold(committed, s.sid))

\* a query with the name c constrained by a number and by a string returned
\* one scan and excluded another
UtcBounds_Witness ==
    /\ pcF = "returned" /\ NumConstraints = 2 /\ KeepsInstant(begin)
    /\ The(filter_params) = <<"c", "c">>
    /\ The(filter_values)[1].t # The(filter_values)[2].t
    /\ Len(The(scan_rows)) = 1 /\ Cardinality(committed["scan"]) = 3

\* the index of the first fetched row of a scan id
FirstRow(sid) == CHOOSE i \in 1..Len(out) : out[i].sid = sid /\ \A j \in 1..(i - 1) : out[j].sid # sid

\* C8: the returned list holds one record for each scan id among the fetched
\* rows, no id twice, in the order in which the ids first occur in the rows.
C8_OneRecordPerScanInFirstSeenOrder ==
    pcF = "returned" =>
        /\ Range(ReturnedSids) = {out[i].sid : i \in 1..Len(out)}
        /\ \A i, j \in 1..Len(ReturnedSids) :
              i < j => /\ ReturnedSids[i] # ReturnedSids[j]
                       /\ FirstRow(ReturnedSids[i]) < FirstRow(ReturnedSids[j])

\* C8 witness: a fetch in which a join matched a scan twice, so that a row
\* occurs twice, and the rows of a scan are not adjacent
C8_Witness ==
    /\ pcF = "returned" /\ Len(The(scan_rows)) = 2
    /\ \E i, j \in 1..Len(out) : i < j /\ out[i] = out[j]
    /\ \E i, j, k \in 1..Len(out) :
          i < j /\ j < k /\ out[i].sid = out[k].sid /\ out[i].sid # out[j].sid
    /\ ReturnedSids = <<2, 1>>

\* the fetched rows of one scan that come from scan_sdata / from scan_fdata
SRowsOf(sid) == {i \in 1..Len(out) : out[i].sid = sid /\ "s_name" \in DOMAIN out[i]}
FRowsOf(sid) == {i \in 1..Len(out) : out[i].sid = sid /\ "f_name" \in DOMAIN out[i]}

\* C9: in every record the numeric rows of the scan appear under f_<name> with
\* a numeric value of such a row, the textual rows under s_<name> with a
\* textual value of such a row, a name met in both tables gives both fields,
\* the record has no other field than these, sid and scan_start_utc, and those
\* two hold the scan's id and start time whatever the metadata names are.
C9_FieldsPrefixedByTable ==
    pcF = "returned" =>
        \A k \in 1..Len(The(scan_rows)) :
            LET rec == The(scan_rows)[k]
                sid == ReturnedSids[k]
            IN  /\ rec["sid"] = Num(sid)
                /\ rec["scan_start_utc"] = Num(ScanRow(committed, sid).scan_start_utc)
                /\ \A i \in FRowsOf(sid) :
                      /\ FKey(out[i].f_name) \in DOMAIN rec
                      /\ \E j \in FRowsOf(sid) :
                            /\ out[j].f_name = out[i].f_name
                            /\ rec[FKey(out[i].f_name)] = out[j].f_value
                /\ \A i \in SRowsOf(sid) :
                      /\ SKey(out[i].s_name) \in DOMAIN rec
                      /\ \E j \in SRowsOf(sid) :
                            /\ out[j].s_name = out[i].s_name
                            /\ rec[SKey(out[i].s_name)] = out[j].s_value
                /\ Cardinality(DOMAIN rec) =
                      2 + Cardinality({out[i].f_name : i \in FRowsOf(sid)})
                        + Cardinality({out[i].s_name : i \in SRowsOf(sid)})

\* C9 witness: a record of a scan with the name a in both tables and with
\* metadata named sid and scan_start_utc
C9_Witness ==
    /\ pcF = "returned"
    /\ \E k \in 1..Len(The(scan_rows)) :
          {"f_a", "s_a", "f_sid", "s_scan_start_utc", "sid", "scan_start_utc"}
              \subseteq DOMAIN The(scan_rows)[k]

-----------------------------------------------------------------------------
(* Specification of the Scan object: add_scan_data called any number of times *)

MetaNames == {"a", "c"}
FloatValues == {Num(1), Num(2)}
StrValues == {Str("on"), Str("off")}

\* the dicts over a set of keys
Dicts(keys, values) == UNION {[d -> values] : d \in SUBSET keys}

InitS ==
    /\ InitFilterVars /\ InitStoreVars /\ InitScanVars /\ InitWriteVars
    /\ InitQueryVars /\ InitCallVars
    /\ committed = EmptyStore

AddScanData ==
    /\ \E float_data \in Dicts(MetaNames, FloatValues), str_data \in Dicts(MetaNames, StrValues) :
          add_scan_data(float_data, str_data)
    /\ UNCHANGED <<varsF, varsStore, varsW, varsQ, varsG>>

NextS == AddScanData

SpecScan == InitS /\ [][NextS]_vars

\* C10: after any sequence of add_scan_data calls, accepted or rejected, no
\* name is a key of both scan_data_float and scan_data_str
C10_NoNameInBothMappings ==
    DOMAIN scan.scan_data_float \cap DOMAIN scan.scan_data_str = {}

\* what one call guarantees: a call that names a key in both arguments is
\* rejected and leaves the Scan as it was
RejectedCallChangesNothing ==
    [][\A float_data \in Dicts(MetaNames, FloatValues), str_data \in Dicts(MetaNames, StrValues) :
          (add_scan_data(float_data, str_data) /\ OverlapInCall(float_data, str_data))
              => (raisedS' = "ValueError" /\ scan' = scan)]_vars

-----------------------------------------------------------------------------
(* Specification of the write path: insert_data called on one connection *)

\* the entries add_cavity_data(cavity, data, sampling_rate) leaves in
\* waveform_data and sampling_rate
Cavity(cav, signals, rate) ==
    [cav |-> cav, signals |-> signals, sampling_rate |-> rate,
     data |-> [n \in {signals[i] : i \in 1..Len(signals)} |->
                  Array(8192, IF n = "PMES" THEN <<2, 1>> ELSE <<1, 2>>)]]

\* a Scan every add_cavity_data of which returned: each pair has its analysis
Analysed(s) ==
    LET pairs == WaveformPairs(s.waveform_data)
    IN  [s EXCEPT !.analysis_scalar = {pairs[i] : i \in 1..Len(pairs)},
                  !.analysis_array = {pairs[i] : i \in 1..Len(pairs)}]

\* the Scans of the tests: metadata only, one cavity with a Time column and
\* both kinds of metadata, one cavity with two signals; and a Scan whose
\* start time carries a zone other than UTC
SampleScans ==
    {Analysed(x) : x \in
    {[NewScan(Naive(1)) EXCEPT !.scan_data_float = [k \in {"a"} |-> Num(1)]],
     [NewScan(Aware(2, 0)) EXCEPT !.waveform_data = <<Cavity("R123", <<"Time", "GMES">>, 5000)>>,
                                  !.scan_data_float = [k \in {"a"} |-> Num(1)],
                                  !.scan_data_str = [k \in {"c"} |-> Str("on")]],
     [NewScan(Naive(1)) EXCEPT !.waveform_data = <<Cavity("R123", <<"GMES", "PMES">>, 5000)>>],
     [NewScan(Aware(3, 1)) EXCEPT !.scan_data_str = [k \in {"c"} |-> Str("on")]]}}

InitW ==
    /\ InitFilterVars /\ InitStoreVars /\ InitWriteVars
    /\ InitQueryVars /\ InitCallVars
    /\ committed = EmptyStore
    /\ scan \in SampleScans
    /\ raisedS = "none"

NextW == InsertDataStep /\ UNCHANGED <<varsF, varsS, varsQ, varsG>>

SpecWrite == InitW /\ [][NextW]_vars

\* every scan id a row of the store refers to, directly or through a waveform
SidsIn(db) ==
    {r.sid : r \in db["scan"] \cup db["waveform"] \cup db["scan_fdata"] \cup db["scan_sdata"]}

WidsIn(db) ==
    {r.wid : r \in db["waveform"] \cup db["waveform_adata"] \cup db["waveform_sdata"]}

SeqRange(q) == {q[i] : i \in 1..Len(q)}

\* the store holds every row insert_data writes for the Scan under sid
HoldsWholeScan(db, sid) ==
    LET ws == {w \in db["waveform"] : w.sid = sid}
        pairs == WaveformPairs(scan.waveform_data)
    IN  /\ Cardinality({r \in db["scan"] : r.sid = sid}) = 1
        /\ {<<w.cavity, w.signal_name>> : w \in ws} = SeqRange(pairs)
        /\ Cardinality(ws) = Len(pairs)
        /\ \A w \in ws :
              /\ {r.process : r \in {x \in db["waveform_adata"] : x.wid = w.wid}}
                     = {"raw"} \cup ArrayNames
              /\ Cardinality({x \in db["waveform_adata"] : x.wid = w.wid})
                     = 1 + Cardinality(ArrayNames)
              /\ {r.name : r \in {x \in db["waveform_sdata"] : x.wid = w.wid}} = ScalarNames
              /\ Cardinality({x \in db["waveform_sdata"] : x.wid = w.wid})
                     = Cardinality(ScalarNames)
        /\ {<<r.name, r.value>> : r \in {x \in db["scan_fdata"] : x.sid = sid}}
               = {<<k, scan.scan_data_float[k]>> : k \in DOMAIN scan.scan_data_float}
        /\ Cardinality({x \in db["scan_fdata"] : x.sid = sid})
               = Cardinality(DOMAIN scan.scan_data_float)
        /\ {<<r.name, r.value>> : r \in {x \in db["scan_sdata"] : x.sid = sid}}
               = {<<k, scan.scan_data_str[k]>> : k \in DOMAIN scan.scan_data_str}
        /\ Cardinality({x \in db["scan_sdata"] : x.sid = sid})
               = Cardinality(DOMAIN scan.scan_data_str)

\* C1: at every moment, and so once a call has returned or raised, the
\* committed store holds for each scan id either every row of the scan or no
\* row at all; a call that returned has committed its scan, and a call whose
\* failing step came before the commit has committed none of it
C1_AllOrNothing ==
    /\ \A sid \in SidsIn(committed) : HoldsWholeScan(committed, sid)
    /\ \A wid \in WidsIn(committed) : \E w \in committed["waveform"] : w.wid = wid
    /\ pcW = "returned" => The(sidW) \in SidsIn(committed)
    /\ (pcW = "raised" /\ ~IsNone(sidW) /\ The(errW).at # "commit")
           => The(sidW) \notin SidsIn(committed)

\* the second call fails at the last insert, after waveforms and metadata
\* joined the transaction; the first call's scan is committed
C1_Witness ==
    /\ pcW = "raised" /\ calls = 2
    /\ The(errW).at = "scan_sdata"
    /\ The(raisedW).kind = "Error"
    /\ WaveformPairs(scan.waveform_data) # <<>>
    /\ Cardinality(committed["scan"]) = 1
    /\ The(sidW) \notin SidsIn(committed)

\* C2: whatever step fails and however the connection behaves during
\* clean-up, the exception that leaves insert_data is the failing step's
C2_ErrorReachesCallerUnchanged ==
    pcW = "raised" => raisedW = errW

\* what holds of the clean-up: when the rollback returns, the failing step's
\* error is raised and nothing of the transaction stays open
ErrorUnchangedWhenRollbackReturns ==
    (pcW = "raised" /\ The(raisedW).at # "rollback")
        => (raisedW = errW /\ pending = EmptyStore)

-----------------------------------------------------------------------------
(* WaveformDB.query_waveform_data and query_waveform_metadata *)

\* the columns of the tables, as the INSERT statements of insert_data and the
\* SELECT lists of query_scan_rows name them; id is each table's own key
Columns ==
    [scan |-> {"sid", "scan_start_utc"},
     scan_fdata |-> {"id", "sid", "name", "value"},
     scan_sdata |-> {"id", "sid", "name", "value"},
     waveform |-> {"wid", "sid", "cavity", "signal_name", "sample_rate_hz", "comment"},
     waveform_adata |-> {"id", "wid", "process", "data"},
     waveform_sdata |-> {"id", "wid", "name", "value"}]

\* "{word} {table}.{column} IN (%s, ..., %s)" with n placeholders
InClause(word, table, column, n) ==
    [kind |-> word, table |-> table, column |-> column, placeholders |-> n]

\* len(x) of an Optional list: TypeError on None
IsListOfSome(x) == ~IsNone(x) /\ Len(The(x)) > 0

\* the error the engine answers a statement with: an empty IN () list is a
\* syntax error, a column the table does not have is unknown
StatementError(clauses) ==
    IF \E i \in 1..Len(clauses) : clauses[i].placeholders = 0
    THEN "ProgrammingError: syntax"
    ELSE IF \E i \in 1..Len(clauses) : clauses[i].column \notin Columns[clauses[i].table]
    THEN "ProgrammingError: unknown column"
    ELSE "none"

RECURSIVE Offset(_, _)
\* how many parameters the clauses before clause i take
Offset(clauses, i) ==
    IF i = 1 THEN 0 ELSE Offset(clauses, i - 1) + clauses[i - 1].placeholders

\* the parameters bound to the IN list of clause i
InList(clauses, params, i) ==
    {params[k] : k \in (Offset(clauses, i) + 1)..(Offset(clauses, i) + clauses[i].placeholders)}

\* the value of a column of a joined row, as a parameter compares to it
ColumnValue(row, column) ==
    IF column \in {"sid", "wid", "id"} THEN Num(row[column]) ELSE Str(row[column])

\* SELECT * FROM waveform JOIN child ON waveform.wid = child.wid: the joined
\* rows, the child's columns beside the waveform's
Joined(db, child) ==
    {[c \in DOMAIN w \cup DOMAIN r |-> IF c \in DOMAIN r THEN r[c] ELSE w[c]] :
        <<w, r>> \in {x \in db["waveform"] \X db[child] : x[1].wid = x[2].wid}}

\* the rows a waveform statement yields, in the order the engine returns them
Select(db, child, clauses, params, order) ==
    SortedBy({row \in Joined(db, child) :
                \A i \in 1..Len(clauses) :
                    ColumnValue(row, clauses[i].column) \in InList(clauses, params, i)},
             order)

\* the result of a gateway call: the error it raised or the value it returned,
\* the statement and parameters it sent, and its sids argument after the call
Outcome(err, value, stmts, sids) ==
    [raised |-> err, value |-> value, sent |-> stmts, sids |-> sids]

WaveformStatement(child, clauses, params) ==
    [select |-> child, clauses |-> clauses, params |-> params]

\* query_waveform_data(sids, signal_names, array_names); data = sids names the
\* caller's list, which data += ... extends in place
query_waveform_data(db, sids, signal_names, array_names, order) ==
    IF IsNone(sids) \/ ~IsListOfSome(sids)
    THEN Outcome("ValueError: Must specify at least one sid", None, <<>>, sids)
    ELSE
    LET d1 == The(sids) \o (IF IsListOfSome(signal_names) THEN The(signal_names) ELSE <<>>)
        d2 == d1 \o (IF IsListOfSome(array_names) THEN The(array_names) ELSE <<>>)
        clauses ==
            <<InClause("WHERE", "waveform", "sid", Len(The(sids)))>>
            \o (IF IsListOfSome(signal_names)
                THEN <<InClause("AND", "waveform", "signal_name", Len(The(signal_names)))>>
                ELSE <<>>)
            \o (IF IsListOfSome(array_names)
                THEN <<InClause("AND", "waveform_adata", "name", Len(The(array_names)))>>
                ELSE <<>>)
        stmt == WaveformStatement("waveform_adata", clauses, d2)
        rows == Select(db, "waveform_adata", clauses, d2, order)
    IN  IF StatementError(clauses) # "none"
        THEN Outcome(StatementError(clauses), None, <<stmt>>, Some(d2))
        ELSE Outcome("none",
                     Some([i \in 1..Len(rows) |->
                             [rows[i] EXCEPT !.data = json_loads(rows[i].data)]]),
                     <<stmt>>, Some(d2))

\* one iteration of the loop that folds metadata rows by wid
FoldWaveformRow(meta, row) ==
    LET fixed == [wid |-> Num(row.wid), sid |-> Num(row.sid), cavity |-> Str(row.cavity),
                  signal_name |-> Str(row.signal_name), comment |-> Str(row.comment),
                  sample_rate_hz |-> Num(row.sample_rate_hz)]
        Set(rec) == Put([k \in DOMAIN rec \cup DOMAIN fixed |->
                            IF k \in DOMAIN fixed THEN fixed[k] ELSE rec[k]],
                        row.name, row.value)
    IN  IF \E i \in 1..Len(meta) : meta[i].wid = row.wid
        THEN [i \in 1..Len(meta) |->
                 IF meta[i].wid = row.wid THEN [meta[i] EXCEPT !.rec = Set(@)] ELSE meta[i]]
        ELSE Append(meta, [wid |-> row.wid, rec |-> Set(EmptyRecord)])

RECURSIVE FoldWaveformFrom(_, _)
FoldWaveformFrom(meta, rows) ==
    IF rows = <<>> THEN meta
    ELSE FoldWaveformFrom(FoldWaveformRow(meta, Head(rows)), Tail(rows))

\* query_waveform_metadata(sids, signal_names, metric_names)
query_waveform_metadata(db, sids, signal_names, metric_names, order) ==
    IF IsNone(sids) \/ IsNone(signal_names)
    THEN Outcome("TypeError: object of type 'NoneType' has no len()", None, <<>>, sids)
    ELSE
    LET d1 == The(sids) \o The(signal_names)
        d2 == d1 \o (IF IsListOfSome(metric_names) THEN The(metric_names) ELSE <<>>)
        clauses ==
            <<InClause("WHERE", "waveform", "sid", Len(The(sids))),
              InClause("AND", "waveform", "signal_name", Len(The(signal_names)))>>
            \o (IF IsListOfSome(metric_names)
                THEN <<InClause("AND", "waveform_sdata", "name", Len(The(metric_names)))>>
                ELSE <<>>)
        stmt == WaveformStatement("waveform_sdata", clauses, d2)
        rows == Select(db, "waveform_sdata", clauses, d2, order)
        meta == FoldWaveformFrom(<<>>, rows)
    IN  IF StatementError(clauses) # "none"
        THEN Outcome(StatementError(clauses), None, <<stmt>>, sids)
        ELSE Outcome("none", Some([i \in 1..Len(meta) |-> meta[i].rec]), <<stmt>>, sids)

-----------------------------------------------------------------------------
(* Query: stage() and run() *)

\* pd.DataFrame(rows): the columns are the keys of the rows; a table of no
\* row has no column
DataFrame(rows) ==
    [columns |-> UNION {DOMAIN rows[i] : i \in 1..Len(rows)}, rows |-> rows]

\* Query.__init__
NewQuery(signal_names, array_names, b, e, params, ops, values, wf_metric_names) ==
    [signal_names |-> signal_names, array_names |-> array_names,
     begin |-> b, end |-> e,
     scan_filter_params |-> params, scan_filter_ops |-> ops,
     scan_filter_values |-> values, wf_metric_names |-> wf_metric_names,
     staged |-> FALSE, scan_meta |-> None, wf_data |-> None, wf_meta |-> None]

\* the parameters of the gateway methods after self, and those with no default
query_scan_rows_params == <<"begin", "end", "q_filter">>
query_waveform_data_params == <<"sids", "signal_names", "array_names">>
query_waveform_metadata_params == <<"sids", "signal_names", "metric_names">>

\* the keywords Query.stage and Query.run pass
stage_keywords == {"begin", "end", "filter_params", "filter_ops", "filter_values"}
run_data_keywords == {"signal_names", "process_names"}
run_metadata_keywords == {"signal_names", "metric_names"}

\* a binding that accepts every keyword
BindError_any_keyword(params, required, npos, keywords) == "none"

\* Python's binding of a call with npos positional arguments and the given
\* keywords to a signature
BindError(params, required, npos, keywords) ==
    IF \E k \in keywords : \A i \in 1..Len(params) : params[i] # k
    THEN "TypeError: unexpected keyword argument"
    ELSE IF \E i \in 1..npos : params[i] \in keywords
    THEN "TypeError: multiple values for argument"
    ELSE IF \E i \in (npos + 1)..Len(params) : params[i] \in required /\ params[i] \notin keywords
    THEN "TypeError: missing required argument"
    ELSE "none"

\* the test run() makes first
NotStaged_never(q) == FALSE

NotStaged(q) == ~q.staged

\* the caller's record of a finished method call
Called(method, err) == [method |-> method, raised |-> err]

\* Query.stage(): the call of query_scan_rows binds first; bound, it runs with
\* q_filter at its default
Stage ==
    /\ ~IsNone(query)
    /\ Len(pcQ) < MaxQueryCalls
    /\ \E order \in Orders :
        LET q     == The(query)
            err   == BindError(query_scan_rows_params, {}, 0, stage_keywords)
            c     == get_scan_join_clauses(q.begin, q.end, None)
            s_sql == ScanStatement("s_sql", c.sql)
            f_sql == ScanStatement("f_sql", c.sql)
            rows  == Execute(committed, s_sql, c.data, order)
                     \o Execute(committed, f_sql, c.data, order)
        IN  /\ raisedQ' = err
            /\ pcQ' = Append(pcQ, Called("stage", err))
            /\ IF err # "none"
               THEN UNCHANGED <<query, sent>>
               ELSE /\ sent' = sent \o <<s_sql, f_sql>>
                    /\ query' = Some([q EXCEPT !.scan_meta = Some(DataFrame(FoldScanRows(rows))),
                                               !.staged = TRUE])
    /\ UNCHANGED <<pcF, filter_params, filter_ops, filter_values, q_filter, raisedF,
                   begin, end, sql, data, out, scan_rows>>
    /\ UNCHANGED <<varsStore, varsS, varsW, varsG>>

\* self.scan_meta.sid.values.tolist(): AttributeError when scan_meta is None
\* or has no column sid
SidColumn(q) ==
    IF IsNone(q.scan_meta) THEN None
    ELSE IF "sid" \notin The(q.scan_meta).columns THEN None
    ELSE Some([i \in 1..Len(The(q.scan_meta).rows) |-> The(q.scan_meta).rows[i]["sid"]])

\* what run() does once it found the query staged: the outcome is the error
\* raised, the query afterwards and the statements sent
RunStaged(q, order) ==
    LET sids == SidColumn(q)
        e1   == BindError(query_waveform_data_params,
                          {"sids", "signal_names", "array_names"}, 1, run_data_keywords)
        r1   == query_waveform_data(committed, sids, q.signal_names, q.array_names, order)
        q1   == [q EXCEPT !.wf_data = Some(DataFrame(The(r1.value)))]
        e2   == BindError(query_waveform_metadata_params,
                          {"sids", "signal_names", "metric_names"}, 1, run_metadata_keywords)
        r2   == query_waveform_metadata(committed, sids, q.signal_names, q.wf_metric_names,
                                        order)
        q2   == [q1 EXCEPT !.wf_meta = Some(DataFrame(The(r2.value)))]
    IN  IF IsNone(sids) THEN [raised |-> "AttributeError", query |-> q, sent |-> <<>>]
        ELSE IF e1 # "none" THEN [raised |-> e1, query |-> q, sent |-> <<>>]
        ELSE IF r1.raised # "none" THEN [raised |-> r1.raised, query |-> q, sent |-> r1.sent]
        ELSE IF e2 # "none" THEN [raised |-> e2, query |-> q1, sent |-> r1.sent]
        ELSE IF r2.raised # "none"
        THEN [raised |-> r2.raised, query |-> q1, sent |-> r1.sent \o r2.sent]
        ELSE [raised |-> "none", query |-> q2, sent |-> r1.sent \o r2.sent]

\* Query.run()
Run ==
    /\ ~IsNone(query)
    /\ Len(pcQ) < MaxQueryCalls
    /\ \E order \in Orders :
        LET q == The(query)
            r == RunStaged(q, order)
        IN  IF NotStaged(q)
            THEN /\ raisedQ' = "RuntimeError: Query not staged."
                 /\ pcQ' = Append(pcQ, Called("run", "RuntimeError: Query not staged."))
                 /\ UNCHANGED <<query, sent>>
            ELSE /\ raisedQ' = r.raised
                 /\ pcQ' = Append(pcQ, Called("run", r.raised))
                 /\ query' = Some(r.query)
                 /\ sent' = sent \o r.sent
    /\ UNCHANGED <<pcF, filter_params, filter_ops, filter_values, q_filter, raisedF,
                   begin, end, sql, data, out, scan_rows>>
    /\ UNCHANGED <<varsStore, varsS, varsW, varsG>>

-----------------------------------------------------------------------------
(* Specification of the Query object: stage() and run() in any order *)

\* the waveforms of the test database: scans 1 and 2 with one signal each,
\* scan 3 with two; every waveform with its three arrays and ten metrics
TestWaveforms ==
    {[wid |-> 1, sid |-> 1, cavity |-> "c1", signal_name |-> "GMES"],
     [wid |-> 2, sid |-> 2, cavity |-> "c2", signal_name |-> "GMES"],
     [wid |-> 3, sid |-> 3, cavity |-> "c3", signal_name |-> "GMES"],
     [wid |-> 4, sid |-> 3, cavity |-> "c3", signal_name |-> "PMES"]}

TestProcesses == <<"raw", "power_spectrum", "frequencies">>

WaveformStore ==
    [TestStore EXCEPT
        !["waveform"] =
            {[wid |-> w.wid, sid |-> w.sid, cavity |-> w.cavity, signal_name |-> w.signal_name,
              sample_rate_hz |-> 5000, comment |-> "NULL"] : w \in TestWaveforms},
        !["waveform_adata"] =
            {[id |-> 3 * (w.wid - 1) + k, wid |-> w.wid, process |-> TestProcesses[k],
              data |-> json_dumps(IF k = 1 THEN Array(8192, <<w.wid % 3, 1>>)
                                  ELSE periodogram(Array(8192, <<w.wid % 3, 1>>),
                                                   TestProcesses[k]))] :
                <<w, k>> \in TestWaveforms \X (1..3)},
        !["waveform_sdata"] =
            {[id |-> 10 * (w.wid - 1) + k, wid |-> w.wid, name |-> SetToSeq(ScalarNames)[k],
              value |-> Num(w.wid)] :
                <<w, k>> \in TestWaveforms \X (1..Cardinality(ScalarNames))}]

\* the arguments the caller builds a Query from
QuerySignals == {Some(<<>>), Some(<<Str("GMES")>>), Some(<<Str("GMES"), Str("PMES")>>)}
QueryArrays == {None, Some(<<Str("raw")>>)}
QueryMetrics == {None, Some(<<Str("mean")>>)}
QueryFilters ==
    {<<None, None, None>>,
     <<Some(<<"c">>), Some(<<"=">>), Some(<<Str("on")>>)>>,
     <<Some(<<"a">>), Some(<<"; --">>), Some(<<Num(1)>>)>>}

InitQ ==
    /\ InitFilterVars /\ InitStoreVars /\ InitScanVars /\ InitWriteVars
    /\ InitQueryVars /\ InitCallVars
    /\ committed = WaveformStore

\* query = Query(db, signal_names, ...)
ConstructQuery ==
    /\ IsNone(query)
    /\ \E sn \in QuerySignals, an \in QueryArrays, b \in {None, Some(Naive(1))},
          e \in {None, Some(Aware(2, 0))}, f \in QueryFilters, mn \in QueryMetrics :
          query' = Some(NewQuery(sn, an, b, e, f[1], f[2], f[3], mn))
    /\ UNCHANGED <<pcQ, raisedQ, varsF, varsStore, varsS, varsW, varsG>>

NextQ == ConstructQuery \/ Stage \/ Run

SpecQuery == InitQ /\ [][NextQ]_vars

\* some call of stage() returned
StageSucceeded == \E i \in 1..Len(pcQ) : pcQ[i].method = "stage" /\ pcQ[i].raised = "none"

LastCalled == pcQ[Len(pcQ)]

\* the Query was built with constraints QueryFilter accepts
ValidConstraints ==
    QueryFilterError(The(query).scan_filter_params, The(query).scan_filter_ops,
                     The(query).scan_filter_values) = "none"

\* C11: a call of run() on a Query no stage() of which has returned raises
\* the not-staged error, sends nothing to the store and leaves wf_data and
\* wf_meta as they were
C11_RunUnstagedFails ==
    [][(Len(pcQ') = Len(pcQ) + 1 /\ pcQ'[Len(pcQ')].method = "run" /\ ~StageSucceeded)
          => /\ raisedQ' = "RuntimeError: Query not staged."
             /\ sent' = sent
             /\ The(query').wf_data = The(query).wf_data
             /\ The(query').wf_meta = The(query).wf_meta]_vars

\* run() was called after a stage() that raised, and raised the not-staged
\* error with nothing sent
C11_Witness ==
    /\ Len(pcQ) = 2
    /\ pcQ[1].method = "stage" /\ pcQ[1].raised # "none"
    /\ pcQ[2] = Called("run", "RuntimeError: Query not staged.")
    /\ sent = <<>>
    /\ IsNone(The(query).wf_data) /\ IsNone(The(query).wf_meta)

\* C12: stage() on a Query built with acceptable constraints returns, has
\* stored the folded metadata of the matching scans in scan_meta and has
\* left the query staged
C12_StageResolvesScans ==
    (pcQ # <<>> /\ LastCalled.method = "stage" /\ ValidConstraints)
        => /\ raisedQ = "none"
           /\ The(query).staged
           /\ ~IsNone(The(query).scan_meta)

\* C13: after stage() then run() on a Query built with acceptable
\* constraints, run() has returned and wf_data and wf_meta hold rows of the
\* resolved scans only
C13_RunFetchesResolvedScans ==
    (Len(pcQ) = 2 /\ pcQ[1].method = "stage" /\ pcQ[2].method = "run" /\ ValidConstraints)
        => /\ raisedQ = "none"
           /\ ~IsNone(The(query).wf_data) /\ ~IsNone(The(query).wf_meta)
           /\ \A i \in 1..Len(The(The(query).wf_data).rows) :
                 \E j \in 1..Len(The(The(query).scan_meta).rows) :
                    Num(The(The(query).wf_data).rows[i].sid)
                        = The(The(query).scan_meta).rows[j]["sid"]

-----------------------------------------------------------------------------
(* Specification of the waveform reads of the gateway *)

\* a gateway method was called and left the outcome r
Finish(op, args, r) ==
    /\ lastCall' = Some([op |-> op, args |-> args, sids |-> r.sids])
    /\ returned' = r.value
    /\ raised' = r.raised
    /\ sent' = sent \o r.sent
    /\ UNCHANGED snapshot

\* the lists a caller passes: scan ids known and unknown to the store, signal
\* names, array names and metric names, each also omitted or empty
CallSids == {None, Some(<<>>), Some(<<Num(1)>>), Some(<<Num(3)>>), Some(<<Num(3), Num(1)>>),
             Some(<<Num(9)>>)}
CallSignals == {None, Some(<<>>), Some(<<Str("GMES")>>), Some(<<Str("PMES")>>)}
CallArrays == {None, Some(<<>>), Some(<<Str("raw")>>), Some(<<Str("raw"), Str("frequencies")>>)}
CallMetrics == {None, Some(<<>>), Some(<<Str("mean")>>), Some(<<Str("rms"), Str("mean")>>)}

\* the caller makes one read
QueryWaveformData ==
    /\ IsNone(lastCall)
    /\ \E sids \in CallSids, sn \in CallSignals, an \in CallArrays, order \in Orders :
          Finish("query_waveform_data", <<sids, sn, an>>,
                 query_waveform_data(committed, sids, sn, an, order))
    /\ UNCHANGED <<pcF, filter_params, filter_ops, filter_values, q_filter, raisedF,
                   begin, end, sql, data, out, scan_rows>>
    /\ UNCHANGED <<varsStore, varsS, varsW, varsQ>>

QueryWaveformMetadata ==
    /\ IsNone(lastCall)
    /\ \E sids \in CallSids, sn \in CallSignals, mn \in CallMetrics, order \in Orders :
          Finish("query_waveform_metadata", <<sids, sn, mn>>,
                 query_waveform_metadata(committed, sids, sn, mn, order))
    /\ UNCHANGED <<pcF, filter_params, filter_ops, filter_values, q_filter, raisedF,
                   begin, end, sql, data, out, scan_rows>>
    /\ UNCHANGED <<varsStore, varsS, varsW, varsQ>>

InitG ==
    /\ InitFilterVars /\ InitStoreVars /\ InitScanVars /\ InitWriteVars
    /\ InitQueryVars /\ InitCallVars
    /\ committed = WaveformStore

NextG == QueryWaveformData \/ QueryWaveformMetadata

SpecGateway == InitG /\ [][NextG]_vars

\* an optional list that restricts nothing: omitted or empty
Unrestricted(x) == IsNone(x) \/ The(x) = <<>>

Allows(x, value) == Unrestricted(x) \/ \E i \in 1..Len(The(x)) : The(x)[i] = value

\* the child table a waveform read joins, and the column that names its rows
ChildOf(op) == IF op = "query_waveform_data" THEN "waveform_adata" ELSE "waveform_sdata"
NameOf(op, row) == IF op = "query_waveform_data" THEN row.process ELSE row.name

\* the joined rows of the store the arguments of the last call select: the
\* scans listed, the signals and the array or metric names allowed
Selected ==
    LET c == The(lastCall)
    IN  {row \in Joined(committed, ChildOf(c.op)) :
            /\ ~IsNone(c.args[1])
            /\ \E i \in 1..Len(The(c.args[1])) : The(c.args[1])[i] = Num(row.sid)
            /\ Allows(c.args[2], Str(row.signal_name))
            /\ Allows(c.args[3], Str(NameOf(c.op, row)))}

\* C14: a waveform read given a list of scan ids, whose arguments select no
\* row of the store, raises no error and returns an empty list
C14_NoMatchIsEmptyResult ==
    (~IsNone(lastCall) /\ ~IsNone(The(lastCall).args[1]) /\ Selected = {})
        => (raised = "none" /\ returned = Some(<<>>))

\* what holds of reads that select nothing: with at least one scan id, and
\* no restriction by array name, query_waveform_data returns an empty list
NoMatchIsEmpty_WaveformData ==
    (/\ ~IsNone(lastCall) /\ Selected = {}
     /\ The(lastCall).op = "query_waveform_data"
     /\ ~Unrestricted(The(lastCall).args[1]) /\ Unrestricted(The(lastCall).args[3]))
        => (raised = "none" /\ returned = Some(<<>>))

\* C20: a waveform read given scan ids and every optional filter omitted or
\* empty completes without error and returns a row for every signal and
\* every array, or a record for every waveform, of those scans
C20_OmittedFiltersRestrictNothing ==
    (/\ ~IsNone(lastCall)
     /\ ~Unrestricted(The(lastCall).args[1])
     /\ Unrestricted(The(lastCall).args[2]) /\ Unrestricted(The(lastCall).args[3]))
        => /\ raised = "none"
           /\ IF The(lastCall).op = "query_waveform_data"
              THEN {The(returned)[i].id : i \in 1..Len(The(returned))}
                       = {row.id : row \in Selected}
              ELSE {The(returned)[i]["wid"] : i \in 1..Len(The(returned))}
                       = {Num(row.wid) : row \in Selected}

\* the same for query_waveform_data alone
OmittedFiltersRestrictNothing_WaveformData ==
    (/\ ~IsNone(lastCall) /\ The(lastCall).op = "query_waveform_data"
     /\ ~Unrestricted(The(lastCall).args[1])
     /\ Unrestricted(The(lastCall).args[2]) /\ Unrestricted(The(lastCall).args[3]))
        => /\ raised = "none"
           /\ {The(returned)[i].id : i \in 1..Len(The(returned))} = {row.id : row \in Selected}
           /\ Len(The(returned)) = Cardinality(Selected)

-----------------------------------------------------------------------------
(* Specification of the round trip: insert_data, then the arrays read back *)

\* after insert_data returned, the caller reads the arrays of the scan just
\* written, all of them or those named raw
ReadBack ==
    /\ pcW = "returned"
    /\ IsNone(lastCall)
    /\ \E an \in {None, Some(<<Str("raw")>>)}, order \in Orders :
          Finish("query_waveform_data", <<Some(<<Num(The(sidW))>>), None, an>>,
                 query_waveform_data(committed, Some(<<Num(The(sidW))>>), None, an, order))
    /\ UNCHANGED <<pcF, filter_params, filter_ops, filter_values, q_filter, raisedF,
                   begin, end, sql, data, out, scan_rows>>
    /\ UNCHANGED <<varsStore, varsS, varsW, varsQ>>

NextT == (InsertDataStep /\ UNCHANGED <<varsF, varsS, varsQ, varsG>>) \/ ReadBack

SpecRoundTrip == InitW /\ [][NextT]_vars

\* the rows returned under a process name
Tagged(process) == {i \in 1..Len(The(returned)) : The(returned)[i].process = process}

\* what an unrestricted read returns: a raw row per pair, whose decoded data
\* are the samples added, and a row per pair for each analysis array
ReadsBackEveryArray ==
    LET pairs == WaveformPairs(scan.waveform_data)
    IN  /\ raised = "none"
        /\ Cardinality(Tagged("raw")) = Len(pairs)
        /\ \A name \in ArrayNames : Cardinality(Tagged(name)) = Len(pairs)
        /\ Len(The(returned)) = Len(pairs) * (1 + Cardinality(ArrayNames))
        /\ \A i \in Tagged("raw") :
              The(returned)[i].data
                  = Samples(The(returned)[i].cavity, The(returned)[i].signal_name)

\* what a read restricted to raw returns: the raw rows and no other
ReadsBackRawOnly ==
    /\ raised = "none"
    /\ Cardinality(Tagged("raw")) = Len(WaveformPairs(scan.waveform_data))
    /\ Len(The(returned)) = Len(WaveformPairs(scan.waveform_data))

\* C15: after insert_data succeeded, reading the arrays of the scan's id with
\* no restriction returns a raw row and a row per analysis array for each of
\* the N pairs, the raw data equal to the samples added; restricted to the
\* array name raw it returns exactly the N raw rows
C15_RoundTrip ==
    ~IsNone(lastCall) =>
        IF IsNone(The(lastCall).args[3]) THEN ReadsBackEveryArray ELSE ReadsBackRawOnly

\* the unrestricted half of the round trip
RoundTrip_Unrestricted ==
    (~IsNone(lastCall) /\ IsNone(The(lastCall).args[3])) => ReadsBackEveryArray

-----------------------------------------------------------------------------
(* WaveformDB.delete_scans *)

\* DELETE FROM scan WHERE sid = %s on tables whose children reference their
\* parent with ON DELETE CASCADE: the scan row goes, and with it its metadata
\* rows, its waveforms and their array and scalar rows
Cascade(db, sid) ==
    LET wids == {w.wid : w \in {x \in db["waveform"] : x.sid = sid}}
    IN  [t \in Tables |->
            IF t \in {"waveform_adata", "waveform_sdata"}
            THEN {r \in db[t] : r.wid \notin wids}
            ELSE {r \in db[t] : r.sid # sid}]

\* delete_scans without conn.commit(): the deletion stays in the open
\* transaction
delete_scans_uncommitted(db, tx, sid) ==
    [raised |-> "none",
     value |-> Some(Cardinality({r \in db["scan"] \cup tx["scan"] : r.sid = sid})),
     committed |-> db, pending |-> tx,
     sent |-> <<[select |-> "DELETE FROM scan WHERE sid = %s", params |-> <<Num(sid)>>]>>]

\* delete_scans(sid): execute, count = cursor.rowcount, conn.commit(), close
\* the cursor, return count
delete_scans(db, tx, sid) ==
    [raised |-> "none",
     value |-> Some(Cardinality({r \in db["scan"] \cup tx["scan"] : r.sid = sid})),
     committed |-> Cascade(Merge(db, tx), sid), pending |-> EmptyStore,
     sent |-> <<[select |-> "DELETE FROM scan WHERE sid = %s", params |-> <<Num(sid)>>]>>]

\* the scan ids a caller asks to delete: stored ones and an unknown one
DeleteSids == {1, 3, 9}

\* the caller deletes scans, then queries
DeleteScans ==
    /\ pcF # "returned"
    /\ Len(sent) < MaxDeletes
    /\ conn = "up"
    /\ \E sid \in DeleteSids :
        LET r == delete_scans(committed, pending, sid)
        IN  /\ lastCall' = Some([op |-> "delete_scans", args |-> <<sid>>, sids |-> None])
            /\ returned' = r.value
            /\ raised' = r.raised
            /\ sent' = sent \o r.sent
            /\ committed' = r.committed
            /\ pending' = r.pending
            /\ snapshot' = None
    /\ UNCHANGED <<pcF, filter_params, filter_ops, filter_values, q_filter, raisedF,
                   begin, end, sql, data, out, scan_rows>>
    /\ UNCHANGED <<conn, auto_inc, last_insert_id, varsS, varsW, varsQ>>

InitD ==
    /\ InitFilterVars /\ InitStoreVars /\ InitScanVars /\ InitWriteVars
    /\ InitQueryVars /\ InitCallVars
    /\ committed = WaveformStore

\* the caller builds a filter of at most one constraint
NewFilterAfterDelete ==
    /\ pcF = "idle"
    /\ \E cs \in SeqsUpTo(ReadConstraints, 1) :
          QueryFilterInit(Some([i \in 1..Len(cs) |-> cs[i][1]]),
                          Some([i \in 1..Len(cs) |-> cs[i][2]]),
                          Some([i \in 1..Len(cs) |-> cs[i][3]]))

NextD == DeleteScans \/ NewFilterAfterDelete \/ QueryScanRows

SpecDelete == InitD /\ [][NextD]_vars

\* the rows of a store that belong to a scan, table by table
RowsOfScan(db, sid) ==
    LET wids == {w.wid : w \in {x \in db["waveform"] : x.sid = sid}}
    IN  [t \in Tables |->
            IF t \in {"waveform_adata", "waveform_sdata"}
            THEN {r \in db[t] : r.wid \in wids}
            ELSE {r \in db[t] : r.sid = sid}]

\* the scan ids delete_scans was called with so far
Deleted ==
    {sent[i].params[1].v : i \in {j \in 1..Len(sent) : sent[j].select = "DELETE FROM scan WHERE sid = %s"}}

\* a step that is a call of delete_scans
IsDelete == Len(sent') = Len(sent) + 1 /\ lastCall' # None /\ The(lastCall').op = "delete_scans"

-----------------------------------------------------------------------------
(* Properties of the write path: start time and identifier *)

\* C17: the scan row insert_data writes holds the UTC instant the Scan's
\* datetime denotes, whatever zone the datetime was given in
C17_StoredAsUtcInstant ==
    \A r \in pending["scan"] \cup committed["scan"] : r.scan_start_utc = Instant(scan.dt)

\* the same for datetimes that are naive or aware in UTC
StoredAsUtcInstant_NaiveOrUtc ==
    KeepsInstant(Some(scan.dt)) =>
        \A r \in pending["scan"] \cup committed["scan"] : r.scan_start_utc = Instant(scan.dt)

-----------------------------------------------------------------------------
(* Scan.analyze_signal(arr, sampling_rate) *)

\* the length analyze_signal accepts
SignalLength == 8192

\* an input: the type of the object given, its len() and the kinds of Python
\* values it holds
Input(container, len, kinds) == [container |-> container, len |-> len, kinds |-> kinds]

\* np.array(arr).dtype: numpy promotes ints with floats to float64, finds no
\* common number type once a str or None is among the elements, and makes an
\* empty list float64
dtype(arr) ==
    IF arr.kinds = {} THEN "float64"
    ELSE IF "NoneType" \in arr.kinds THEN "object"
    ELSE IF "str" \in arr.kinds THEN "str_"
    ELSE IF "float" \in arr.kinds THEN "float64"
    ELSE "int64"

\* np.issubdtype(dtype, np.number)
issubdtype_number(dt) == dt \in {"int64", "float64"}

\* the messages of the three refusals
NotAnArray == "TypeError: Input must be a list, numpy array, or tuple."
NotNumerical == "ValueError: Input array must contain only numerical values."
NotSignalLength == "ValueError: Input array must have exactly 8192 elements."

\* len(arr) != 8192
WrongLength_never(arr) == FALSE
WrongLength(arr) == arr.len # SignalLength

\* the checks in the order the code makes them, then the result: the scalars by
\* name, and the arrays periodogram returns, len // 2 + 1 values each
analyze_signal(arr, rate) ==
    IF arr.container \notin {"list", "ndarray", "tuple"}
    THEN [raised |-> NotAnArray, value |-> None]
    ELSE IF ~issubdtype_number(dtype(arr))
    THEN [raised |-> NotNumerical, value |-> None]
    ELSE IF WrongLength(arr)
    THEN [raised |-> NotSignalLength, value |-> None]
    ELSE [raised |-> "none",
          value |-> Some([scalars |-> ScalarNames,
                          arrays |-> [n \in ArrayNames |-> (arr.len \div 2) + 1],
                          df |-> rate])]

-----------------------------------------------------------------------------
(* Specification of the signal analyzer *)

\* the inputs: lists, tuples and arrays of no, too few, exactly enough and too
\* many elements, of numbers, of strings, of None and of mixtures; and a str
ElementKinds == {"int", "float", "str", "NoneType"}
InputLengths == {0, SignalLength - 1, SignalLength, SignalLength + 1}
AnalyzerInputs ==
    {Input(c, 0, {}) : c \in {"list", "ndarray", "tuple", "str"}}
    \cup {Input(c, n, k) : c \in {"list", "ndarray", "tuple"}, n \in InputLengths \ {0},
                           k \in (SUBSET ElementKinds) \ {{}}}
    \cup {Input("str", n, {"str"}) : n \in InputLengths \ {0}}
SamplingRates == {5000, 10000}

\* the caller analyses one input
AnalyzeSignal ==
    /\ IsNone(lastCall)
    /\ \E arr \in AnalyzerInputs, rate \in SamplingRates :
          LET r == analyze_signal(arr, rate)
          IN  /\ lastCall' = Some([op |-> "analyze_signal", args |-> <<arr, rate>>])
              /\ returned' = r.value
              /\ raised' = r.raised
    /\ UNCHANGED <<varsF, varsStore, varsS, varsW, varsQ, snapshot>>

InitA ==
    /\ InitFilterVars /\ InitStoreVars /\ InitScanVars /\ InitWriteVars
    /\ InitQueryVars /\ InitCallVars
    /\ committed = EmptyStore

NextA == AnalyzeSignal

SpecAnalyze == InitA /\ [][NextA]_vars

\* the input of the call made, and what the claim is about: sequences of
\* elements, and those holding an element that is no number
Analyzed == The(lastCall).args[1]
IsSampleSequence(arr) == arr.container \in {"list", "ndarray", "tuple"}
HasNonNumeric(arr) == arr.kinds \cap {"str", "NoneType"} # {}
YieldsResult ==
    /\ raised = "none"
    /\ ~IsNone(returned)
    /\ Cardinality(The(returned).scalars) = 10
    /\ Cardinality(DOMAIN The(returned).arrays) = 2

-----------------------------------------------------------------------------
(* Order of the compiled filter *)

\* the sequence of time bounds given, begin before end
BoundsGiven == begin \o end

\* C21: the i-th constraint of the filter gives the i-th clause, a JOIN of
\* alias s<i-1> with the constraint's operator and table, and parameters
\* 2i-1 and 2i, its name and value; the parameters of the bounds follow,
\* begin before end; the placeholders of the text are as many as the
\* parameters, 2 * len(filter) + (1 if begin) + (1 if end), and the k-th
\* placeholder of the text stands where the k-th parameter belongs
C21_ConstraintOrderFixesOutput ==
    pcF = "returned" =>
        LET n == NumConstraints
            clauses == The(sql)
            d == The(data)
        IN  /\ Len(clauses) = n + Len(BoundsGiven)
            /\ \A i \in 1..n :
                  /\ clauses[i].kind = "JOIN" /\ clauses[i].alias = i - 1
                  /\ clauses[i].op = The(filter_ops)[i]
                  /\ clauses[i].table = TableOf(The(filter_values)[i])
                  /\ ParamsBefore(clauses, i) = 2 * (i - 1)
                  /\ d[2 * i - 1] = Str(The(filter_params)[i])
                  /\ d[2 * i] = The(filter_values)[i]
            /\ \A j \in 1..Len(BoundsGiven) :
                  /\ clauses[n + j].kind # "JOIN"
                  /\ ParamsBefore(clauses, n + j) = 2 * n + j - 1
                  /\ d[2 * n + j] = Num(strftime(get_datetime_as_utc(BoundsGiven[j])))
            /\ clauses # <<>> =>
                  ParamsBefore(clauses, Len(clauses)) + Placeholders(clauses[Len(clauses)])
                      = Len(d)
            /\ Len(d) = 2 * n + (IF IsNone(begin) THEN 0 ELSE 1) + (IF IsNone(end) THEN 0 ELSE 1)

\* C21 witness: two constraints that differ in name, operator and value type,
\* compiled with both bounds, the bounds different in the parameter list
C21_Witness ==
    /\ pcF = "returned" /\ NumConstraints = 2
    /\ The(filter_params)[1] # The(filter_params)[2]
    /\ The(filter_ops)[1] # The(filter_ops)[2]
    /\ The(sql)[1].table # The(sql)[2].table
    /\ ~IsNone(begin) /\ ~IsNone(end)
    /\ Len(The(data)) = 6 /\ The(data)[5] # The(data)[6]

-----------------------------------------------------------------------------
(* Time bounds *)

\* the clauses of the text that follow the JOINs of the constraints
TrailingClauses == SubSeq(The(sql), NumConstraints + 1, Len(The(sql)))

\* the scan has a row in scan_fdata or scan_sdata
HasMetadata(db, sid) == \E r \in db["scan_fdata"] \cup db["scan_sdata"] : r.sid = sid

\* the text a call's bounds compile to: nothing, WHERE >=, WHERE <=, or
\* WHERE >= AND <=, and no JOIN among it
BoundsCompileToOneWhere ==
    LET ge == WhereClause("WHERE", "scan.scan_start_utc", ">=")
        le == WhereClause("WHERE", "scan.scan_start_utc", "<=")
        and_le == WhereClause("AND", "scan.scan_start_utc", "<=")
    IN  /\ \A i \in 1..NumConstraints : The(sql)[i].kind = "JOIN"
        /\ TrailingClauses =
              (IF IsNone(begin) THEN (IF IsNone(end) THEN <<>> ELSE <<le>>)
                                ELSE (IF IsNone(end) THEN <<ge>> ELSE <<ge, and_le>>))

\* C22: the bounds compile to one WHERE clause after the JOINs, begin as >=,
\* end as <=, both joined by AND, none without bounds; and of the scans
\* that have metadata and meet every constraint, those returned are the ones
\* whose start time is at or after begin and at or before end, a start time
\* equal to a bound included
C22_BoundsAreOneInclusiveWhere ==
    pcF = "returned" =>
        /\ BoundsCompileToOneWhere
        /\ \A s \in committed["scan"] :
              (HasMetadata(committed, s.sid) /\ AllConstraintsHold(committed, s.sid))
                  => (s.sid \in Range(ReturnedSids) <=> WithinBounds(s))
        /\ \A s \in committed["scan"] : ~WithinBounds(s) => s.sid \notin Range(ReturnedSids)

\* the same for bounds that are naive or aware in UTC
BoundsAreOneInclusiveWhere_UtcBounds ==
    (pcF = "returned" /\ KeepsInstant(begin) /\ KeepsInstant(end)) =>
        /\ BoundsCompileToOneWhere
        /\ \A s \in committed["scan"] :
              (HasMetadata(committed, s.sid) /\ AllConstraintsHold(committed, s.sid))
                  => (s.sid \in Range(ReturnedSids) <=> WithinBounds(s))
        /\ \A s \in committed["scan"] : ~WithinBounds(s) => s.sid \notin Range(ReturnedSids)

-----------------------------------------------------------------------------
(* Order of the statements of insert_data *)

\* the rows of the open transaction and of the store together
Written(table) == pending[table] \cup committed[table]

\* insert_data is between its first INSERT and its commit
Inserting == pcW \in {"scan_id", "waveform", "waveform_id", "adata", "sdata",
                      "scan_fdata", "scan_sdata", "commit"}

\* the rows this call has written so far, in the open transaction: each kind
\* of row is there only after the row that owns it, and carries its id
RowsFollowTheirOwner ==
    /\ \A w \in pending["waveform"] :
          /\ ~IsNone(sidW) /\ w.sid = The(sidW)
          /\ \E s \in pending["scan"] : s.sid = w.sid
    /\ \A t \in {"waveform_adata", "waveform_sdata"} : \A r \in pending[t] :
          \E w \in pending["waveform"] : w.wid = r.wid
    /\ \A t \in {"scan_fdata", "scan_sdata"} : \A r \in pending[t] :
          /\ r.sid = The(sidW)
          /\ \E s \in pending["scan"] : s.sid = r.sid
          /\ todo = <<>>
          /\ Cardinality(pending["waveform"]) = Len(WaveformPairs(scan.waveform_data))
    /\ (pending["scan_sdata"] # {} /\ DOMAIN scan.scan_data_float # {})
          => pending["scan_fdata"] # {}

\* the array and scalar rows of a waveform, once written: the raw row first,
\* then one row per derived array, and one scalar row per metric
WaveformRowsComplete ==
    \A w \in pending["waveform"] :
        LET arrays == {r \in pending["waveform_adata"] : r.wid = w.wid}
            scalars == {r \in pending["waveform_sdata"] : r.wid = w.wid}
            raw == {r \in arrays : r.process = "raw"}
        IN  /\ arrays = {} \/ /\ {r.process : r \in arrays} = {"raw"} \cup ArrayNames
                              /\ Cardinality(arrays) = 1 + Cardinality(ArrayNames)
                              /\ \A r \in raw : \A x \in arrays : r.id <= x.id
            /\ scalars = {} \/ /\ {r.name : r \in scalars} = ScalarNames
                               /\ Cardinality(scalars) = Cardinality(ScalarNames)
                               /\ arrays # {}
            /\ (pcW \in {"scan_fdata", "scan_sdata", "commit"}) => scalars # {}

\* no row is written for a signal named Time, and a row for every other pair
TimeIsNoWaveform ==
    /\ \A w \in Written("waveform") : w.signal_name # "Time"
    /\ pcW \in {"scan_fdata", "scan_sdata", "commit"} =>
          {<<w.cavity, w.signal_name>> : w \in pending["waveform"]}
              = {p \in UNION {{<<c.cav, c.signals[i]>> : i \in 1..Len(c.signals)} :
                                  c \in SeqRange(scan.waveform_data)} : p[2] # "Time"}

\* commit comes last: while the call inserts, the store holds none of its
\* rows, and when it returned the transaction is empty and the scan stored
CommitComesLast ==
    /\ (Inserting /\ ~IsNone(sidW)) =>
          \A t \in {"scan", "waveform", "scan_fdata", "scan_sdata"} :
              \A r \in committed[t] : r.sid # The(sidW)
    /\ pcW = "returned" =>
          /\ pending = EmptyStore
          /\ \E s \in committed["scan"] : s.sid = The(sidW)

\* a metadata step of a Scan without that kind of metadata sends nothing
EmptyMetadataSkipped ==
    /\ (pcW = "scan_fdata" /\ DOMAIN scan.scan_data_float = {}) => UNCHANGED varsStore
    /\ (pcW = "scan_sdata" /\ DOMAIN scan.scan_data_str = {}) => UNCHANGED varsStore

\* C23: within a call of insert_data the scan row is written first and its
\* id read; every waveform row follows it and carries that id; the array rows
\* (raw first) and scalar rows of a waveform follow the waveform's row and
\* carry its id; numeric then textual scan metadata follow all waveforms and
\* are skipped when empty; commit is last; Time gives no row
C23_StatementsInOrder ==
    /\ [](RowsFollowTheirOwner /\ WaveformRowsComplete /\ TimeIsNoWaveform /\ CommitComesLast)
    /\ [][EmptyMetadataSkipped]_vars

\* C23 witness: the call for a Scan with a Time column and both kinds of
\* metadata is about to commit, one waveform and its rows written
C23_Witness ==
    /\ pcW = "commit"
    /\ \E c \in SeqRange(scan.waveform_data) : \E i \in 1..Len(c.signals) : c.signals[i] = "Time"
    /\ Cardinality(pending["waveform"]) = 1
    /\ pending["waveform_adata"] # {} /\ pending["waveform_sdata"] # {}
    /\ pending["scan_fdata"] # {} /\ pending["scan_sdata"] # {}

-----------------------------------------------------------------------------
(* Specification of the two folds: fetched rows in, records out *)

\* rows as s_sql and f_sql return them: two scans, the names a and c, the
\* name a in both tables
ScanFoldRows ==
    {[sid |-> i, scan_start_utc |-> i, sfid |-> 0, f_name |-> n, f_value |-> Num(v)] :
        i \in {1, 2}, n \in {"a", "c"}, v \in {1, 2}}
    \cup {[sid |-> 1, scan_start_utc |-> 1, ssid |-> 0, s_name |-> "a", s_value |-> Str("on")]}

\* rows as the statement of query_waveform_metadata returns them: two
\* waveforms of one scan, a metric of the analyzer and a metric whose name is
\* that of a column of waveform
WaveformFoldRows ==
    {[wid |-> w, sid |-> 1, cavity |-> "R123",
      signal_name |-> IF w = 1 THEN "GMES" ELSE "PMES", comment |-> "NULL",
      sample_rate_hz |-> 5000, id |-> 0, name |-> n, value |-> Num(v)] :
        w \in {1, 2}, n \in {"mean", "sid"}, v \in {1, 2}}

\* the fetch with a copy of row i put in after row p
WithDuplicate(rows, i, p) == SubSeq(rows, 1, p) \o <<rows[i]>> \o SubSeq(rows, p + 1, Len(rows))

\* the loop of query_waveform_metadata and its return value
FoldWaveformRows(rows) ==
    LET m == FoldWaveformFrom(<<>>, rows) IN [i \in 1..Len(m) |-> m[i].rec]

\* a fetch is folded, and so is the fetch with one of its rows duplicated
\* somewhere after the original
Fold(op, rows, i, p, result, again) ==
    /\ out' = rows
    /\ scan_rows' = Some(result)
    /\ returned' = Some(again)
    /\ raised' = "none"
    /\ lastCall' = Some([op |-> op, args |-> <<i, p>>])
    /\ UNCHANGED <<pcF, filter_params, filter_ops, filter_values, q_filter, raisedF,
                   begin, end, sql, data, sent>>
    /\ UNCHANGED <<varsStore, varsS, varsW, varsQ, snapshot>>

FoldScanFetch ==
    /\ IsNone(lastCall)
    /\ \E n \in 1..MaxFoldRows : \E rows \in [1..n -> ScanFoldRows] :
          \E i \in 1..n : \E p \in i..n :
              Fold("query_scan_rows", rows, i, p, FoldScanRows(rows),
                   FoldScanRows(WithDuplicate(rows, i, p)))

FoldWaveformFetch ==
    /\ IsNone(lastCall)
    /\ \E n \in 1..MaxFoldRows : \E rows \in [1..n -> WaveformFoldRows] :
          \E i \in 1..n : \E p \in i..n :
              Fold("query_waveform_metadata", rows, i, p, FoldWaveformRows(rows),
                   FoldWaveformRows(WithDuplicate(rows, i, p)))

InitFold ==
    /\ InitFilterVars /\ InitStoreVars /\ InitScanVars /\ InitWriteVars
    /\ InitQueryVars /\ InitCallVars
    /\ committed = EmptyStore

NextFold == FoldScanFetch \/ FoldWaveformFetch

SpecFold == InitFold /\ [][NextFold]_vars

-----------------------------------------------------------------------------
(* Properties of the folds *)

Folded == ~IsNone(lastCall)
FoldOp == The(lastCall).op
CopyOf == The(lastCall).args[1]
CopyAfter == The(lastCall).args[2]

\* the owner of a fetched row, and the field its (name, value) pair goes to
Owner(row) == IF FoldOp = "query_scan_rows" THEN row.sid ELSE row.wid
NameField(row) ==
    IF FoldOp = "query_waveform_metadata" THEN row.name
    ELSE IF "s_name" \in DOMAIN row THEN "s_" \o row.s_name ELSE "f_" \o row.f_name
NameValue(row) ==
    IF FoldOp = "query_waveform_metadata" THEN row.value
    ELSE IF "s_name" \in DOMAIN row THEN row.s_value ELSE row.f_value

\* the fields a record takes from the columns of the owner's row
FixedFields == IF FoldOp = "query_scan_rows" THEN {"sid", "scan_start_utc"}
               ELSE {"wid", "sid", "cavity", "signal_name", "comment", "sample_rate_hz"}
ColumnOf(row, k) ==
    IF k \in {"cavity", "signal_name", "comment"} THEN Str(row[k]) ELSE Num(row[k])

\* the record of an owner in a result
RecordsOf(result, owner) ==
    {j \in 1..Len(result) : result[j][IF FoldOp = "query_scan_rows" THEN "sid" ELSE "wid"]
                                = Num(owner)}

\* the last row of the fetch that belongs to owner, and the last that
\* carries the field k as its name
LastOf(owner) == CHOOSE j \in 1..Len(out) :
    /\ Owner(out[j]) = owner
    /\ \A l \in (j + 1)..Len(out) : Owner(out[l]) # owner
Named(owner, k) == {j \in 1..Len(out) : Owner(out[j]) = owner /\ NameField(out[j]) = k}
LastNamed(owner, k) == CHOOSE j \in Named(owner, k) : \A l \in Named(owner, k) : l <= j

\* C24: the record of an owner holds, under each name its rows carry (a
\* name that is no fixed field of the record), the value of the last row of
\* that name; and the fetch with a copy of one of its rows put in anywhere
\* after the original folds to the same result
C24_LastWriteWinsDuplicatesIgnored ==
    Folded =>
        /\ \A j \in 1..Len(out) :
              LET k == NameField(out[j])
                  o == Owner(out[j])
              IN  k \notin FixedFields =>
                      \A x \in RecordsOf(The(scan_rows), o) :
                          The(scan_rows)[x][k] = NameValue(out[LastNamed(o, k)])
        /\ The(returned) = The(scan_rows)

\* C24 as the code has it: every row assigns the fixed fields from its
\* columns and then its value to the field of its name, so each field of a
\* record holds what the last row that assigned it gave it; a copy of a row put
\* in directly after the original changes nothing, and a copy put in further on
\* changes the result when the last row of its owner and name before it holds
\* another value and no row of that owner and name follows it
C24_LastWriteWinsPerField ==
    Folded =>
        /\ \A j \in 1..Len(out) :
              LET o == Owner(out[j])
                  last == out[LastOf(o)]
              IN  /\ Cardinality(RecordsOf(The(scan_rows), o)) = 1
                  /\ \A x \in RecordsOf(The(scan_rows), o) :
                        LET rec == The(scan_rows)[x]
                        IN  /\ DOMAIN rec = FixedFields \cup {NameField(out[l]) :
                                                l \in {m \in 1..Len(out) : Owner(out[m]) = o}}
                            /\ \A k \in DOMAIN rec :
                                  rec[k] = IF k = NameField(last) THEN NameValue(last)
                                           ELSE IF k \in FixedFields THEN ColumnOf(last, k)
                                           ELSE NameValue(out[LastNamed(o, k)])
        /\ CopyAfter = CopyOf => The(returned) = The(scan_rows)
        /\ LET o == Owner(out[CopyOf])
               k == NameField(out[CopyOf])
           IN  (/\ k \notin FixedFields
                /\ \A l \in (CopyAfter + 1)..Len(out) :
                       ~(Owner(out[l]) = o /\ NameField(out[l]) = k)
                /\ LET before == {l \in Named(o, k) : l <= CopyAfter}
                        l == CHOOSE x \in before : \A y \in before : y <= x
                    IN  NameValue(out[l]) # NameValue(out[CopyOf]))
               => The(returned) # The(scan_rows)

\* C24 witness: a scan fetch of two rows of one scan and name with different
\* values, folded to the second value, the first row copied directly after
\* itself without effect
C24_Witness ==
    /\ Folded /\ FoldOp = "query_scan_rows" /\ Len(out) = 2
    /\ out[1].sid = out[2].sid /\ NameField(out[1]) = NameField(out[2])
    /\ NameValue(out[1]) # NameValue(out[2])
    /\ CopyOf = 1 /\ CopyAfter = 1
    /\ Len(The(scan_rows)) = 1
    /\ The(scan_rows)[1][NameField(out[2])] = NameValue(out[2])
    /\ The(returned) = The(scan_rows)

RECURSIVE FirstSeen(_, _)
\* the owners of a fetch in the order in which they first occur
FirstSeen(rows, seen) ==
    IF rows = <<>> THEN <<>>
    ELSE IF Owner(Head(rows)) \in seen THEN FirstSeen(Tail(rows), seen)
    ELSE <<Owner(Head(rows))>> \o FirstSeen(Tail(rows), seen \cup {Owner(Head(rows))})

\* the records of a waveform fetch: one per wid in first-seen order, the six
\* fixed fields equal to the columns of the waveform, and beside them one
\* field per metric name of the waveform's rows
RecordsKeepColumns ==
    LET result == The(scan_rows)
        wids == FirstSeen(out, {})
    IN  /\ Len(result) = Len(wids)
        /\ \A x \in 1..Len(result) :
              LET mine == {j \in 1..Len(out) : out[j].wid = wids[x]}
              IN  /\ result[x]["wid"] = Num(wids[x])
                  /\ \A k \in FixedFields : \A j \in mine : result[x][k] = ColumnOf(out[j], k)
                  /\ DOMAIN result[x] \ FixedFields = {out[j].name : j \in mine}
                  /\ \A j \in mine : \E l \in mine :
                        out[l].name = out[j].name /\ result[x][out[j].name] = out[l].value

FixedFieldsAreTheColumns_OtherNames ==
    (Folded /\ FoldOp = "query_waveform_metadata"
        /\ \A j \in 1..Len(out) : out[j].name \notin FixedFields) => RecordsKeepColumns

-----------------------------------------------------------------------------
(* Scan.add_cavity_data(cavity, data, sampling_rate) *)

\* the ndarray of a signal as analyze_signal sees it
InputOf(array) == Input("ndarray", array.len, {"float"})

\* self.waveform_data[cavity] = data: a new key goes last, a key already
\* there keeps its place
PutCavity(waveform_data, entry) ==
    IF \E i \in 1..Len(waveform_data) : waveform_data[i].cav = entry.cav
    THEN [i \in 1..Len(waveform_data) |->
             IF waveform_data[i].cav = entry.cav THEN entry ELSE waveform_data[i]]
    ELSE Append(waveform_data, entry)

\* the loop over data.keys(): it stops at the first signal whose analysis
\* raises, and what the assignments and iterations before it stored stays
RECURSIVE AnalyzeFrom(_, _, _, _, _)
AnalyzeFrom(s, cav, signals, arrays, rate) ==
    IF signals = <<>> THEN [scan |-> s, raised |-> "none"]
    ELSE IF Head(signals) = "Time"
    THEN AnalyzeFrom(s, cav, Tail(signals), arrays, rate)
    ELSE LET r == analyze_signal(InputOf(arrays[Head(signals)]), rate)
         IN  IF r.raised # "none" THEN [scan |-> s, raised |-> r.raised]
             ELSE AnalyzeFrom([s EXCEPT !.analysis_scalar = @ \cup {<<cav, Head(signals)>>},
                                        !.analysis_array = @ \cup {<<cav, Head(signals)>>}],
                              cav, Tail(signals), arrays, rate)

\* add_cavity_data on the Scan s: the four assignments, then the loop
add_cavity_data(s, cav, signals, arrays, rate) ==
    LET entry == [cav |-> cav, signals |-> signals, sampling_rate |-> rate, data |-> arrays]
        s1 == [s EXCEPT !.waveform_data = PutCavity(@, entry),
                        !.analysis_scalar = {p \in @ : p[1] # cav},
                        !.analysis_array = {p \in @ : p[1] # cav}]
    IN  AnalyzeFrom(s1, cav, signals, arrays, rate)

-----------------------------------------------------------------------------
(* Specification of a Scan built with add_cavity_data and then inserted *)

\* the data of the calls: a Time column with a signal, two signals the
\* second of which is one sample short, and one signal that is short
CavityNames == {"R123", "R456"}
GoodSamples == Array(SignalLength, <<1, 2>>)
ShortSamples == Array(SignalLength - 1, <<1, 2>>)
CavityData ==
    { [signals |-> <<"Time", "GMES">>,
       arrays |-> [n \in {"Time", "GMES"} |-> GoodSamples]],
      [signals |-> <<"GMES", "PMES">>,
       arrays |-> [n \in {"GMES", "PMES"} |-> IF n = "GMES" THEN GoodSamples ELSE ShortSamples]],
      [signals |-> <<"GMES">>, arrays |-> [n \in {"GMES"} |-> ShortSamples]] }

\* the caller adds the data of a cavity before the Scan is inserted
AddCavityData ==
    /\ pcW = "idle"
    /\ \E cav \in CavityNames, d \in CavityData :
          LET r == add_cavity_data(scan, cav, d.signals, d.arrays, 5000)
          IN  /\ scan' = r.scan
              /\ raisedS' = r.raised
    /\ UNCHANGED <<varsF, varsStore, varsW, varsQ, varsG>>

InitC ==
    /\ InitFilterVars /\ InitStoreVars /\ InitScanVars /\ InitWriteVars
    /\ InitQueryVars /\ InitCallVars
    /\ committed = EmptyStore

NextC ==
    \/ AddCavityData
    \/ (InsertDataStep /\ UNCHANGED <<varsF, varsS, varsQ, varsG>>)
    \/ (MissingAnalysis /\ UNCHANGED <<varsF, varsS, varsQ, varsG>>)

SpecCavity == InitC /\ [][NextC]_vars

\* C26: after any calls of add_cavity_data, those that raised included, every
\* pair of waveform_data whose signal is not Time has its entry in
\* analysis_scalar and in analysis_array, and insert_data never comes upon a
\* waveform without them
C26_EveryWaveformAnalysed ==
    /\ \A i \in 1..Len(WaveformPairs(scan.waveform_data)) :
          /\ WaveformPairs(scan.waveform_data)[i] \in scan.analysis_scalar
          /\ WaveformPairs(scan.waveform_data)[i] \in scan.analysis_array
    /\ ~IsNone(errW) => The(errW).kind # "KeyError"

\* every pair of a Scan has its analysis
AllAnalysed(s) ==
    \A i \in 1..Len(WaveformPairs(s.waveform_data)) :
        /\ WaveformPairs(s.waveform_data)[i] \in s.analysis_scalar
        /\ WaveformPairs(s.waveform_data)[i] \in s.analysis_array

\* a call of add_cavity_data that returns keeps every pair analysed
ReturningCallKeepsAnalysis ==
    [][(scan' # scan /\ raisedS' = "none" /\ AllAnalysed(scan)) => AllAnalysed(scan')]_vars

-----------------------------------------------------------------------------
(* Arguments of the waveform reads *)

\* C27: after a waveform read the caller's sids list holds the elements it
\* held before the call
C27_ArgumentsUnchanged ==
    ~IsNone(lastCall) => The(lastCall).sids = The(lastCall).args[1]

\* the same for query_waveform_metadata alone
ArgumentsUnchanged_WaveformMetadata ==
    (~IsNone(lastCall) /\ The(lastCall).op = "query_waveform_metadata")
        => The(lastCall).sids = The(lastCall).args[1]

-----------------------------------------------------------------------------
(* Specification of two connections: a WaveformDB object that reads, named A,
   and a connection on which insert_data and delete_scans commit, named B *)

\* A calls query_scan_rows without bounds and without a filter, again and again
ReadOnA ==
    /\ pcF \in {"idle", "returned"}
    /\ Len(sent) < 2 * MaxReads
    /\ \E order \in Orders : query_scan_rows(None, None, order)
    /\ pcF' = "returned"
    /\ UNCHANGED <<filter_params, filter_ops, filter_values, q_filter, raisedF>>
    /\ UNCHANGED <<varsStore, varsS, varsW, varsQ, lastCall, returned, raised>>

\* between two calls of insert_data, B deletes a stored scan and commits
DeleteOnB ==
    /\ pcW \in {"idle", "returned", "raised"}
    /\ conn = "up"
    /\ \E sid \in {r.sid : r \in committed["scan"]} :
        LET r == delete_scans(committed, pending, sid)
        IN  /\ lastCall' = Some([op |-> "delete_scans", args |-> <<sid>>, sids |-> None])
            /\ returned' = r.value
            /\ raised' = r.raised
            /\ committed' = r.committed
            /\ pending' = r.pending
    /\ UNCHANGED <<varsF, conn, auto_inc, last_insert_id, varsS, varsW, varsQ, snapshot>>

InitN ==
    /\ InitFilterVars /\ InitStoreVars /\ InitWriteVars
    /\ InitQueryVars /\ InitCallVars
    /\ committed = EmptyStore
    /\ scan \in {s \in SampleScans : s.scan_data_float # EmptyDict}
    /\ raisedS = "none"

NextN ==
    \/ ReadOnA
    \/ (InsertDataStep /\ UNCHANGED <<varsF, varsS, varsQ, varsG>>)
    \/ DeleteOnB

SpecConnections == InitN /\ [][NextN]_vars

\* a step in which query_scan_rows returns on A
IsRead == pcF' = "returned" /\ Len(sent') = Len(sent) + 2

\* the scan ids of the records query_scan_rows returned
SidsRead == {The(scan_rows)[i]["sid"].v : i \in 1..Len(The(scan_rows))}

\* the scans of a store that query_scan_rows can return without bounds and
\* without a filter
SidsWithMetadata(db) == {r.sid : r \in {x \in db["scan"] : HasMetadata(db, x.sid)}}

\* C28: every query_scan_rows on A returns the scans of the state B has
\* committed so far, whatever A read before, and leaves no transaction open on A
C28_ReadsSeeCommittedState ==
    [][IsRead => (SidsRead' = SidsWithMetadata(committed) /\ IsNone(snapshot'))]_vars

\* a read on a connection with no transaction open returns the committed state
ReadsSeeCommittedState_NoOpenTransaction ==
    [][(IsRead /\ IsNone(snapshot)) => SidsRead' = SidsWithMetadata(committed)]_vars

\* a read on A returns the state committed when A's transaction began
ReadsSeeCommittedState_AtFirstRead ==
    [][(IsRead /\ ~IsNone(snapshot))
          => (SidsRead' = SidsWithMetadata(The(snapshot)) /\ snapshot' = snapshot)]_vars

\* A has read, B has committed a scan since, and A's next read did not return it
StaleRead ==
    /\ pcF = "returned" /\ Len(sent) = 4
    /\ SidsRead # SidsWithMetadata(committed)

-----------------------------------------------------------------------------
(* The result tables of a Query *)

\* the scan ids of the rows of a result table
SidsOfTable(df) == {df.rows[i]["sid"] : i \in 1..Len(df.rows)}

\* the scan ids of the candidate set
Candidates(q) == IF IsNone(SidColumn(q)) THEN {} ELSE Range(The(SidColumn(q)))

\* wf_data holds raw column values, scan_meta and wf_meta tagged ones
BothFetchedForCandidates(q) ==
    /\ ~IsNone(q.wf_data) /\ ~IsNone(q.wf_meta) /\ q.staged
    /\ \A sid \in SidsOfTable(The(q.wf_data)) : Num(sid) \in Candidates(q)
    /\ \A sid \in SidsOfTable(The(q.wf_meta)) : sid \in Candidates(q)

-----------------------------------------------------------------------------
(* Scans without metadata *)

\* C30: whatever the bounds and the constraints, every scan query_scan_rows
\* returns has a row in scan_fdata or in scan_sdata; a scan stored without any
\* metadata is not returned, whether or not it has waveforms
C30_OnlyScansWithMetadata ==
    pcF = "returned" =>
        /\ \A sid \in Range(ReturnedSids) : HasMetadata(committed, sid)
        /\ \A s \in committed["scan"] :
              ~HasMetadata(committed, s.sid) => s.sid \notin Range(ReturnedSids)

\* the store holds scan 2 with a waveform and no metadata; neither the bounds
\* nor a constraint exclude it, and the call returned scan 1 alone
C30_Witness ==
    /\ pcF = "returned"
    /\ committed = BareStore
    /\ IsNone(begin) /\ IsNone(end) /\ NumConstraints = 0
    /\ \E w \in committed["waveform"] : w.sid = 2
    /\ ~HasMetadata(committed, 2)
    /\ Range(ReturnedSids) = {1}

=============================================================================
